---- MODULE Spec2Model ----
(***************************************************************************)
(* State-machine model of the migration harness: the Orchestrator's phase  *)
(* loop, the Phase Runner, the validation gates, the Result Store          *)
(* (StateManager) and the Progress Log (ProgressTracker).                   *)
(*                                                                         *)
(* Python dicts are modelled as TLA+ functions whose DOMAIN is the set of  *)
(* keys present, so that a missing key, dict.get with a default and        *)
(* dict.update keep their meaning.  Python strings whose characters matter *)
(* (str.strip) are sequences of one-character strings.                     *)
(***************************************************************************)
EXTENDS Integers, Sequences, FiniteSets, TLC

VARIABLES
    pc,            \* position of run_pipeline: idle, loop, executing, done
    idx,           \* index in PHASES of the for loop's current phase
    result,        \* run_pipeline's local `result` (value of the last assignment)
    runnerRet,     \* what PhaseRunner.run handed back: a value or a raised exception
    runResult,     \* run_pipeline's outcome: "running", "True", "False" or "raised"
    progressFile,  \* migration-progress.txt: [exists, content]
    stateFiles,    \* {phase}-result.json per phase: [exists, content]
    now,           \* the clock read by datetime.utcnow()
    toolCalls,     \* tool calls made by the collaborator in the current phase
    invoked,       \* history: phases whose collaborator was invoked, in order
    awaited,       \* history: the outcome of the last awaited collaborator call
    collab,        \* history: per phase, what the collaborator did
    gate,          \* history: per phase, what _validate_phase_result says of its result
    gateArg,       \* the `result` argument a validation gate is called with
    gatePhase,     \* the phase whose gate was called last ("none" before any call)
    gateRet,       \* how that call ended: "ok", or the exception it raised
    saved,         \* history of the save_*_result calls: per phase the value last
                   \* saved; of the last call, the phase and the instances existing
    got,           \* the last get_*_result call: its store, its phase, its return value
    stores,        \* number of StateManager instances built on the working directory
    readRet,       \* read_progress: whether it was the last call on the tracker,
                   \* and what it returned
    logOps,        \* history: the writing ProgressTracker calls, in order
    repo,          \* the git repository: branches, HEAD, commits, working tree
    gitCall,       \* the RollbackManager call made last, and how it ended
    recorded,      \* history: the savepoint made last and the file state when
                   \* create_savepoint returned, while only edits and commits followed
    reportDir,     \* build/test-results/test: whether it exists, and its files
    testRun,       \* the run_tests call made last: what gradle did, what was returned
    cli,           \* the invocation of main: its arguments, its position, its exit code
    writers        \* ProgressTracker instances writing side by side: the record each
                   \* has read, the update it is making, the updates completed

\* The state a pipeline run works on.
pipelineVars == <<pc, idx, result, runnerRet, runResult, toolCalls, invoked, awaited,
                  collab, gate>>

\* The state of the calls made on one component alone: a gate, the Result
\* Store, the Progress Log.
gateVars == <<gateArg, gatePhase, gateRet>>

storeVars == <<saved, got, stores>>

logVars == <<readRet, logOps>>

\* The state of the Checkpoint Manager (RollbackManager) and its repository.
gitVars == <<repo, gitCall, recorded>>

\* The state of the Report Bridge (GradleRunner), of the command (main) and
\* of ProgressTracker instances interleaving on one project directory.
bridgeVars == <<reportDir, testRun>>

cliVars == <<cli>>

writerVars == <<writers>>

vars == <<pc, idx, result, runnerRet, runResult, progressFile, stateFiles, now,
          toolCalls, invoked, awaited, collab, gate, gateArg, gatePhase, gateRet,
          saved, got, stores, readRet, logOps, repo, gitCall, recorded, reportDir,
          testRun, cli, writers>>

(***************************************************************************)
(* Bounds of the model.                                                    *)
(***************************************************************************)
MaxItems == 1          \* longest item list a collaborator result carries
MaxToolCalls == 1      \* tool calls the collaborator makes per phase

(***************************************************************************)
(* Phases.                                                                 *)
(***************************************************************************)
PHASES == <<"discovery", "narrowing", "generation", "migration", "validation">>

PhaseNames == {PHASES[i] : i \in 1..Len(PHASES)}

\* The key under which each phase's result carries its item list.
CollectionKey(phase) ==
    CASE phase = "discovery"  -> "usages"
      [] phase = "narrowing"  -> "narrowed_usages"
      [] phase = "generation" -> "generated_migrations"
      [] phase = "migration"  -> "applied_migrations"
      [] OTHER                -> "checks"

(***************************************************************************)
(* Python values.                                                          *)
(***************************************************************************)
EmptyDict == [k \in {} |-> ""]

\* dict.get(key, default)
Get(d, key, default) == IF key \in DOMAIN d THEN d[key] ELSE default

\* dict.update(new): keys of new win, the other keys are kept.
Update(d, new) == new @@ d

\* An Optional[Dict]: None, or a dict.
NoneValue == [isNone |-> TRUE, value |-> EmptyDict]

DictValue(d) == [isNone |-> FALSE, value |-> d]

\* Truth value of an Optional[Dict]: None and the empty dict are falsy.
Truthy(v) == ~v.isNone /\ DOMAIN v.value # {}

\* str.strip(): leading and trailing whitespace removed.
IsSpace(c) == c \in {" ", "\t", "\n"}

RECURSIVE LStrip(_)
LStrip(s) == IF s # <<>> /\ IsSpace(Head(s)) THEN LStrip(Tail(s)) ELSE s

RECURSIVE RStrip(_)
RStrip(s) ==
    IF s # <<>> /\ IsSpace(s[Len(s)]) THEN RStrip(SubSeq(s, 1, Len(s) - 1)) ELSE s

Strip(s) == RStrip(LStrip(s))

\* An element of a collection: a dict with string fields, or something that is
\* no dict (a character of a string, a key of a mapping, a number).
DictItem(fields) == [isDict |-> TRUE, fields |-> fields]

NonDictItem == [isDict |-> FALSE, fields |-> EmptyDict]

\* A value stored under a collection key: a list, or a string or a mapping
\* (whose iteration yields non-dict elements).
ListOf(elems) == [shape |-> "list", elems |-> elems]

NonList(shape, n) == [shape |-> shape, elems |-> [i \in 1..n |-> NonDictItem]]

\* Truth value of a collection: empty containers are falsy.
CollTruthy(c) == Len(c.elems) > 0

(***************************************************************************)
(* Validation gates (pipeline/gates.py).  A gate returns "ok", or names    *)
(* the exception it raises.                                                *)
(***************************************************************************)
\* Mutant of ValidateDiscoveryGate: the phase tag is not looked at.
ValidateDiscoveryGateNoTag(r) ==
    IF r.isNone THEN "GateError"
    ELSE IF ~CollTruthy(Get(r.value, "usages", ListOf(<<>>))) THEN "GateError"
    ELSE "ok"

ValidateDiscoveryGate(r) ==
    IF r.isNone THEN "GateError"
    ELSE IF Get(r.value, "phase", "None") # "discovery" THEN "GateError"
    ELSE IF ~CollTruthy(Get(r.value, "usages", ListOf(<<>>))) THEN "GateError"
    ELSE "ok"

\* Mutant of ValidateNarrowingGate: the discovery gate's key is read.
ValidateNarrowingGateWrongKey(r) ==
    IF r.isNone THEN "GateError"
    ELSE IF Get(r.value, "phase", "None") # "narrowing" THEN "GateError"
    ELSE IF ~CollTruthy(Get(r.value, "usages", ListOf(<<>>))) THEN "GateError"
    ELSE "ok"

ValidateNarrowingGate(r) ==
    IF r.isNone THEN "GateError"
    ELSE IF Get(r.value, "phase", "None") # "narrowing" THEN "GateError"
    ELSE IF ~CollTruthy(Get(r.value, "narrowed_usages", ListOf(<<>>))) THEN "GateError"
    ELSE "ok"

\* One iteration of the loop over the migrations: `migration.get(...)` raises
\* AttributeError on an element that is no dict.
CheckMigration(m) ==
    IF ~m.isDict THEN "AttributeError"
    ELSE IF Strip(Get(m.fields, "graphql_query", <<>>)) = <<>> THEN "GateError"
    ELSE IF Strip(Get(m.fields, "new_code", <<>>)) = <<>> THEN "GateError"
    ELSE "ok"

\* Mutant of CheckMigrations: only the first migration is looked at.
CheckMigrationsFirstOnly(elems) ==
    IF elems = <<>> THEN "ok" ELSE CheckMigration(Head(elems))

RECURSIVE CheckMigrations(_)
CheckMigrations(elems) ==
    IF elems = <<>> THEN "ok"
    ELSE IF CheckMigration(Head(elems)) # "ok" THEN CheckMigration(Head(elems))
    ELSE CheckMigrations(Tail(elems))

ValidateGenerationGate(r) ==
    IF r.isNone THEN "GateError"
    ELSE IF Get(r.value, "phase", "None") # "generation" THEN "GateError"
    ELSE IF ~CollTruthy(Get(r.value, "generated_migrations", ListOf(<<>>)))
         THEN "GateError"
    ELSE CheckMigrations(Get(r.value, "generated_migrations", ListOf(<<>>)).elems)

(***************************************************************************)
(* Progress Log (state/progress.py).  The progress file is                 *)
(* [exists, content]; content is the JSON document, a dict with the keys   *)
(* project, started_at and phases; phases maps a phase name to its entry.  *)
(***************************************************************************)
NoFile == [exists |-> FALSE, content |-> EmptyDict]

\* _write_progress: the whole document replaces the file.
WriteProgress(progress) == [exists |-> TRUE, content |-> progress]

\* `self.read_progress() or {"phases": {}}`
ReadProgressOrDefault(f) ==
    IF f.exists /\ DOMAIN f.content # {} THEN f.content ELSE [phases |-> EmptyDict]

\* The read-modify-write cycle the three mark_* methods share: the phase's
\* entry is created when absent, then updated with `fields`.
UpsertPhase(f, phase, fields) ==
    LET progress == ReadProgressOrDefault(f)
        entry == Get(progress.phases, phase, EmptyDict)
    IN  WriteProgress([progress EXCEPT
            !.phases = (phase :> Update(entry, fields)) @@ progress.phases])

\* Mutant of InitProgress: the phases of the record on file are kept.
InitProgressKeepingPhases(project, t) ==
    WriteProgress([project |-> project, started_at |-> t,
                   phases |-> ReadProgressOrDefault(progressFile).phases])

InitProgress(project, t) ==
    WriteProgress([project |-> project, started_at |-> t, phases |-> EmptyDict])

MarkPhaseStarted(f, phase, t) ==
    UpsertPhase(f, phase, [status |-> "in_progress", started_at |-> t])

\* Mutant of MarkPhaseCompleted: the entry is replaced instead of updated.
MarkPhaseCompletedReplacing(f, phase, summary, t) ==
    LET progress == ReadProgressOrDefault(f)
        entry    == [status |-> "completed", completed_at |-> t, summary |-> summary]
    IN  WriteProgress([progress EXCEPT
            !.phases = [q \in DOMAIN progress.phases \cup {phase} |->
                           IF q = phase THEN entry ELSE progress.phases[q]]])

MarkPhaseCompleted(f, phase, summary, t) ==
    UpsertPhase(f, phase, [status |-> "completed", completed_at |-> t, summary |-> summary])

\* Mutant of MarkPhaseFailed: fields the entry holds already are kept.
MarkPhaseFailedEntryWins(f, phase, error, t) ==
    LET progress == ReadProgressOrDefault(f)
        entry    == Get(progress.phases, phase, EmptyDict)
        fields   == [status |-> "failed", failed_at |-> t, error |-> error]
        merged   == [k \in DOMAIN entry \cup DOMAIN fields |->
                        IF k \in DOMAIN entry THEN entry[k] ELSE fields[k]]
    IN  WriteProgress([progress EXCEPT
            !.phases = [q \in DOMAIN progress.phases \cup {phase} |->
                           IF q = phase THEN merged ELSE progress.phases[q]]])

MarkPhaseFailed(f, phase, error, t) ==
    UpsertPhase(f, phase, [status |-> "failed", failed_at |-> t, error |-> error])

\* Mutant of AddSessionLog: the new session replaces the list.
AddSessionLogReplacing(f, phase, session, model, turns, t) ==
    LET progress == ReadProgressOrDefault(f)
        entry    == Get(progress.phases, phase, EmptyDict)
        log      == [session_id |-> session, model |-> model, turns |-> turns,
                     logged_at |-> t]
    IN  WriteProgress([progress EXCEPT
            !.phases = (phase :> Update(entry, [sessions |-> <<log>>]))
                           @@ progress.phases])

\* add_session_log: the session is appended to the list of the phase's entry;
\* the entry and the list are created when absent.
AddSessionLog(f, phase, session, model, turns, t) ==
    LET progress == ReadProgressOrDefault(f)
        entry    == Get(progress.phases, phase, EmptyDict)
        sessions == Get(entry, "sessions", <<>>)
        log      == [session_id |-> session, model |-> model, turns |-> turns,
                     logged_at |-> t]
    IN  WriteProgress([progress EXCEPT
            !.phases = (phase :> Update(entry, [sessions |-> Append(sessions, log)]))
                           @@ progress.phases])

\* read_progress: None when the file does not exist.
ReadProgress(f) == IF ~f.exists THEN NoneValue ELSE DictValue(f.content)

(***************************************************************************)
(* Result Store (state/manager.py): one file per phase, holding a JSON     *)
(* document.  A JSON value is [t, v]: its kind (object, array, string,     *)
(* number) and its members, elements or characters.                        *)
(***************************************************************************)
JsonString(s) == [t |-> "string", v |-> s]

\* json.dump of an element of a list: a dict becomes an object of strings, a
\* scalar a number.
JsonOfItem(m) ==
    IF m.isDict
    THEN [t |-> "object", v |-> [k \in DOMAIN m.fields |-> JsonString(m.fields[k])]]
    ELSE [t |-> "number", v |-> <<>>]

\* json.dump of the value under a key of a result: the phase tag and the
\* timestamp are strings; the other keys hold a list (an array), a string or
\* a mapping (an object).
JsonOfValue(key, x) ==
    IF key \in {"phase", "timestamp"} THEN JsonString(<<x>>)
    ELSE IF x.shape = "list"
    THEN [t |-> "array", v |-> [i \in 1..Len(x.elems) |-> JsonOfItem(x.elems[i])]]
    ELSE IF x.shape = "str"
    THEN JsonString([i \in 1..Len(x.elems) |-> "x"])
    ELSE [t |-> "object", v |-> [i \in 1..Len(x.elems) |-> [t |-> "number", v |-> <<>>]]]

\* json.dump(result): the text written to the file.
JsonDump(d) == [t |-> "object", v |-> [k \in DOMAIN d |-> JsonOfValue(k, d[k])]]

\* json.load of an element of an array.
ItemOfJson(j) ==
    IF j.t = "object"
    THEN DictItem([k \in DOMAIN j.v |-> j.v[k].v])
    ELSE NonDictItem

\* json.load of the value under a key.
ValueOfJson(key, j) ==
    IF key \in {"phase", "timestamp"} THEN j.v[1]
    ELSE IF j.t = "array"
    THEN ListOf([i \in 1..Len(j.v) |-> ItemOfJson(j.v[i])])
    ELSE IF j.t = "string" THEN NonList("str", Len(j.v))
    ELSE NonList("dict", Len(j.v))

\* json.load(f): the dict read back from the file's text.
JsonLoad(j) == [k \in DOMAIN j.v |-> ValueOfJson(k, j.v[k])]

\* Mutant of SaveResult: one file is shared by all phases.
SaveResultSharedFile(files, phase, d) ==
    [q \in DOMAIN files |-> [exists |-> TRUE, content |-> JsonDump(d)]]

\* Mutant of SaveResult: the new result is merged into the stored one.
SaveResultMerging(files, phase, d) ==
    [files EXCEPT ![phase] =
        [exists |-> TRUE,
         content |-> IF files[phase].exists
                     THEN JsonDump(Update(JsonLoad(files[phase].content), d))
                     ELSE JsonDump(d)]]

\* _save_result: open(file, "w") truncates the file of the phase, json.dump
\* writes the result.
SaveResult(files, phase, d) ==
    [files EXCEPT ![phase] = [exists |-> TRUE, content |-> JsonDump(d)]]

\* _get_result: None when the file does not exist, else json.load.
GetResult(files, phase) ==
    IF ~files[phase].exists THEN NoneValue
    ELSE DictValue(JsonLoad(files[phase].content))

(***************************************************************************)
(* The external collaborator (PhaseRunner._execute_phase): the values it   *)
(* can hand back for a phase, the exceptions it can raise, and the results *)
(* it can save through the tool surface while it runs.  The method is the  *)
(* place where the agent session runs (its body in the repository is a     *)
(* placeholder that returns None); the model lets it do whatever its       *)
(* signature allows: return None, return a dict, or raise an Exception.    *)
(***************************************************************************)
ValidItem == DictItem([graphql_query |-> <<"q">>, new_code |-> <<"c">>])

BlankItem == DictItem([graphql_query |-> <<" ">>, new_code |-> <<"c">>])

Items == {ValidItem, BlankItem, NonDictItem}

RECURSIVE SeqsUpTo(_, _)
SeqsUpTo(S, n) ==
    IF n = 0 THEN {<<>>}
    ELSE LET shorter == SeqsUpTo(S, n - 1)
         IN  shorter \cup {Append(q, x) : q \in shorter, x \in S}

\* Values found under a collection key: lists of up to MaxItems items, the
\* empty string and a non-empty string.
Collections ==
    {ListOf(q) : q \in SeqsUpTo(Items, MaxItems)} \cup {NonList("str", n) : n \in 0..1}

\* A phase tag that is not the phase's own.
OtherPhase(phase) == IF phase = "discovery" THEN "narrowing" ELSE "discovery"

\* Dicts the collaborator can return for a phase: with its own tag, another
\* phase's tag or none; with or without its collection; and the empty dict.
CollaboratorDicts(phase) ==
    LET tags  == {EmptyDict, [phase |-> phase], [phase |-> OtherPhase(phase)]}
        colls == {EmptyDict} \cup {CollectionKey(phase) :> c : c \in Collections}
    IN  {EmptyDict} \cup {[timestamp |-> "t"] @@ tag @@ coll : tag \in tags, coll \in colls}

CollaboratorValues(phase) ==
    {NoneValue} \cup {DictValue(d) : d \in CollaboratorDicts(phase)}

ExceptionMessages == {"", "boom"}

\* The smallest result of a phase that its gate accepts.
MinimalResult(phase) ==
    [phase |-> phase, timestamp |-> "t"] @@ (CollectionKey(phase) :> ListOf(<<ValidItem>>))

(***************************************************************************)
(* Phase Runner (pipeline/runner.py).  What run() gets from the awaited    *)
(* collaborator, and what it hands to its caller, is an outcome: a value   *)
(* (None or a dict) or a raised exception with its message.                *)
(***************************************************************************)
Returned(v) == [kind |-> "value", value |-> v, error |-> ""]

Raised(msg) == [kind |-> "raised", value |-> NoneValue, error |-> msg]

\* Per phase, the outcomes the awaited collaborator can produce.
CollaboratorOutcomes ==
    [phase \in PhaseNames |->
        {Returned(v) : v \in CollaboratorValues(phase)}
            \cup {Raised(msg) : msg \in ExceptionMessages}]

AllOutcomes == UNION {CollaboratorOutcomes[p] : p \in PhaseNames}

\* Mutant of RunnerMark: nothing is written after the await.
RunnerMarkNothing(f, phase, o, t) == f

\* Mutant of RunnerMark: the `else` branch for a missing result is forgotten.
RunnerMarkCompletedAlways(f, phase, o, t) ==
    IF o.kind = "raised"
    THEN MarkPhaseFailed(f, phase, <<o.error>>, t)
    ELSE MarkPhaseCompleted(f, phase, <<"Phase", phase, "completed successfully">>, t)

\* run() after the await: the Progress Log entry it writes for outcome o.
RunnerMark(f, phase, o, t) ==
    IF o.kind = "raised"
    THEN MarkPhaseFailed(f, phase, <<o.error>>, t)
    ELSE IF Truthy(o.value)
    THEN MarkPhaseCompleted(f, phase, <<"Phase", phase, "completed successfully">>, t)
    ELSE MarkPhaseFailed(f, phase, <<"Phase", phase, "produced no results">>, t)

\* Mutant of RunnerResult: the exception is swallowed and None returned.
RunnerResultSwallows(o) == IF o.kind = "raised" THEN Returned(NoneValue) ELSE o

\* run() after the await: `return result`, or `raise` of the same exception.
RunnerResult(o) == o

\* What the collaborator did, for the history.
Outcome(o) ==
    IF o.kind = "raised" THEN "raised"
    ELSE IF o.value.isNone THEN "none"
    ELSE IF Truthy(o.value) THEN "value" ELSE "empty"

(***************************************************************************)
(* Orchestrator (orchestrator.py).                                         *)
(***************************************************************************)
ProjectName == "test-migration"

\* Mutant of ValidatePhaseResult: migration and validation are gated on
\* their phase tag too.
ValidateEveryPhase(phase, r) ==
    LET g == CASE phase = "discovery"  -> ValidateDiscoveryGate(r)
               [] phase = "narrowing"  -> ValidateNarrowingGate(r)
               [] phase = "generation" -> ValidateGenerationGate(r)
               [] OTHER -> IF Get(r.value, "phase", "None") # phase
                           THEN "GateError" ELSE "ok"
    IN  IF g = "ok" THEN "True" ELSE IF g = "GateError" THEN "False" ELSE g

\* _validate_phase_result: "True", "False", or the exception that escapes it.
ValidatePhaseResult(phase, r) ==
    LET g == CASE phase = "discovery"  -> ValidateDiscoveryGate(r)
               [] phase = "narrowing"  -> ValidateNarrowingGate(r)
               [] phase = "generation" -> ValidateGenerationGate(r)
               [] OTHER                -> "ok"
    IN  IF g = "ok" THEN "True" ELSE IF g = "GateError" THEN "False" ELSE g

\* Mutant of Decide: a result its gate rejects does not stop the loop.
DecideIgnoringGate(phase, ret) ==
    IF ret.kind = "raised" THEN "except"
    ELSE IF ~Truthy(ret.value) THEN "no_result"
    ELSE LET v == ValidatePhaseResult(phase, ret.value)
         IN  IF v \in {"True", "False"} THEN "passed" ELSE "except"

\* Mutant of Decide: the `if not result` test is missing.
DecideWithoutResultCheck(phase, ret) ==
    IF ret.kind = "raised" THEN "except"
    ELSE LET v == ValidatePhaseResult(phase, ret.value)
         IN  IF v = "True" THEN "passed" ELSE IF v = "False" THEN "rejected" ELSE "except"

\* The loop body after `await runner.run()`: which way run_pipeline goes.
Decide(phase, ret) ==
    IF ret.kind = "raised" THEN "except"
    ELSE IF ~Truthy(ret.value) THEN "no_result"
    ELSE LET v == ValidatePhaseResult(phase, ret.value)
         IN  IF v = "True" THEN "passed" ELSE IF v = "False" THEN "rejected" ELSE "except"

\* What _validate_phase_result says of the value the collaborator handed
\* back, for the history ("notrun" when it handed back None or raised).
Verdict(phase, o) ==
    IF o.kind = "raised" \/ o.value.isNone THEN "notrun"
    ELSE ValidatePhaseResult(phase, o.value)

\* Mutant of OnException: the exception leaves run_pipeline.
OnExceptionPropagates == "raised"

\* What run_pipeline does with an exception that reaches its `except Exception`.
OnException == "False"

Phase == PHASES[idx]

\* Mutant of NextPhaseIndex: the phase that passed is run again.
NextPhaseIndexRetry(i) == i

\* `for phase in self.PHASES`: the loop moves on to the next phase.
NextPhaseIndex(i) == i + 1

\* No pipeline run has begun.
PipelineIdle ==
    /\ pc = "idle"
    /\ idx = 1
    /\ result = NoneValue
    /\ runnerRet = Returned(NoneValue)
    /\ runResult = "running"
    /\ toolCalls = 0
    /\ invoked = <<>>
    /\ awaited = Returned(NoneValue)
    /\ collab = [p \in PhaseNames |-> "notrun"]
    /\ gate = [p \in PhaseNames |-> "notrun"]

\* A working directory in which nothing has been written yet.
EmptyWorkDir ==
    /\ progressFile = NoFile
    /\ stateFiles = [p \in PhaseNames |-> NoFile]
    /\ now = 0

\* No gate has been called.
NoGateCall ==
    /\ gateArg = NoneValue
    /\ gatePhase = "none"
    /\ gateRet = "pending"

\* `got` when the last call on the Result Store was no get.
NoGet == [store |-> 0, phase |-> "none", value |-> NoneValue]

\* One StateManager exists and none of its methods has been called.
NoStoreCall ==
    /\ saved = [of |-> [p \in PhaseNames |-> NoneValue], phase |-> "none", stores |-> 0]
    /\ got = NoGet
    /\ stores = 1

\* `readRet` when the last call on the tracker was no read_progress.
NoRead == [fresh |-> FALSE, ret |-> NoneValue]

\* No ProgressTracker method has been called.
NoLogCall ==
    /\ readRet = NoRead
    /\ logOps = <<>>

\* The repository as `git init` and a first commit leave it: one commit with
\* the file in state 0, branch main checked out, a clean working tree.
NewRepo ==
    [branches |-> (<<"main">> :> 1),
     head     |-> <<"main">>,
     commits  |-> <<[tree |-> 0, parent |-> 0]>>,
     worktree |-> 0,
     edits    |-> 0]

\* `gitCall` when the last thing done to the repository was no
\* RollbackManager call.
NoCall == [op |-> "none", name |-> <<>>, raised |-> FALSE, ret |-> <<>>, error |-> <<>>]

\* No RollbackManager method has been called.
NoGitCall ==
    /\ repo = NewRepo
    /\ gitCall = NoCall
    /\ recorded = EmptyDict

\* The report directory before gradle ever ran: it does not exist.
NoReportDir == [exists |-> FALSE, files |-> <<>>]

\* `testRun` before any run_tests call.
NoRun == [called |-> FALSE, returncode |-> 0, stdout |-> <<>>, stderr |-> <<>>,
          parsed |-> <<>>, checks |-> <<>>]

\* run_tests has not been called.
NoTestRun ==
    /\ reportDir = NoReportDir
    /\ testRun = NoRun

\* `cli` before the command is invoked.
NotInvoked == [pc |-> "none", config |-> "none", status |-> FALSE, help |-> FALSE,
               exit |-> -1, started |-> FALSE, shown |-> FALSE]

\* The command has not been invoked.
NoCliCall == cli = NotInvoked

\* No second ProgressTracker instance is at work.
NoWriters == writers = [local |-> <<>>, done |-> <<>>, overlap |-> FALSE]

Init ==
    /\ PipelineIdle
    /\ EmptyWorkDir
    /\ NoGateCall
    /\ NoStoreCall
    /\ NoLogCall
    /\ NoGitCall
    /\ NoTestRun
    /\ NoCliCall
    /\ NoWriters

\* run_pipeline is called: init_progress, then the loop is entered.
RunPipeline ==
    /\ pc = "idle"
    /\ progressFile' = InitProgress(ProjectName, now)
    /\ now' = now + 1
    /\ pc' = "loop"
    /\ UNCHANGED <<idx, result, runnerRet, runResult, stateFiles, toolCalls,
                   invoked, awaited, collab, gate>>
    /\ UNCHANGED <<gateVars, storeVars, logVars, gitVars, bridgeVars, cliVars, writerVars>>

\* PhaseRunner.run up to the await: the phase is marked started and the
\* collaborator is invoked.
RunnerStart ==
    /\ pc = "loop"
    /\ progressFile' = MarkPhaseStarted(progressFile, Phase, now)
    /\ now' = now + 1
    /\ invoked' = Append(invoked, Phase)
    /\ toolCalls' = 0
    /\ pc' = "executing"
    /\ UNCHANGED <<idx, result, runnerRet, runResult, stateFiles, awaited, collab,
                   gate>>
    /\ UNCHANGED <<gateVars, storeVars, logVars, gitVars, bridgeVars, cliVars, writerVars>>

\* The collaborator saves a result through the tool surface (ToolRegistry's
\* save_*_result, which exist for every phase).
ToolSave(q) ==
    /\ pc = "executing"
    /\ toolCalls < MaxToolCalls
    /\ stateFiles' = SaveResult(stateFiles, q, MinimalResult(q))
    /\ toolCalls' = toolCalls + 1
    /\ UNCHANGED <<pc, idx, result, runnerRet, runResult, progressFile, now,
                   invoked, awaited, collab, gate>>
    /\ UNCHANGED <<gateVars, storeVars, logVars, gitVars, bridgeVars, cliVars, writerVars>>

\* The await ends with outcome o: the rest of PhaseRunner.run.  run_pipeline
\* goes on in the same step (there is no await between the two), by one of
\* the six actions below.
RunnerFinishes(o) ==
    /\ pc = "executing"
    /\ o \in CollaboratorOutcomes[Phase]
    /\ progressFile' = RunnerMark(progressFile, Phase, o, now)
    /\ now' = now + 1
    /\ runnerRet' = RunnerResult(o)
    /\ awaited' = o
    /\ collab' = [collab EXCEPT ![Phase] = Outcome(o)]
    /\ gate' = [gate EXCEPT ![Phase] = Verdict(Phase, o)]
    /\ UNCHANGED <<stateFiles, toolCalls, invoked>>
    /\ UNCHANGED <<gateVars, storeVars, logVars, gitVars, bridgeVars, cliVars, writerVars>>

\* run() raised: `except Exception` of run_pipeline returns False.
OrchestratorCatchesRunner(o) ==
    /\ RunnerFinishes(o)
    /\ runnerRet'.kind = "raised"
    /\ Decide(Phase, runnerRet') = "except"
    /\ runResult' = OnException
    /\ pc' = "done"
    /\ UNCHANGED <<idx, result>>

\* `if not result: return False`
OrchestratorNoResult(o) ==
    /\ RunnerFinishes(o)
    /\ Decide(Phase, runnerRet') = "no_result"
    /\ result' = runnerRet'.value
    /\ runResult' = "False"
    /\ pc' = "done"
    /\ UNCHANGED idx

\* `if not self._validate_phase_result(phase, result): return False`
OrchestratorGateRejects(o) ==
    /\ RunnerFinishes(o)
    /\ Decide(Phase, runnerRet') = "rejected"
    /\ result' = runnerRet'.value
    /\ runResult' = "False"
    /\ pc' = "done"
    /\ UNCHANGED idx

\* The gate raised something that is no GateError: it leaves
\* _validate_phase_result and `except Exception` of run_pipeline returns False.
OrchestratorCatchesGate(o) ==
    /\ RunnerFinishes(o)
    /\ runnerRet'.kind = "value"
    /\ Decide(Phase, runnerRet') = "except"
    /\ result' = runnerRet'.value
    /\ runResult' = OnException
    /\ pc' = "done"
    /\ UNCHANGED idx

\* The result passed: the loop goes on to the next phase.
OrchestratorNextPhase(o) ==
    /\ RunnerFinishes(o)
    /\ Decide(Phase, runnerRet') = "passed"
    /\ idx < Len(PHASES)
    /\ result' = runnerRet'.value
    /\ idx' = NextPhaseIndex(idx)
    /\ pc' = "loop"
    /\ UNCHANGED runResult

\* The last phase's result passed: `return True`.
OrchestratorReturnsTrue(o) ==
    /\ RunnerFinishes(o)
    /\ Decide(Phase, runnerRet') = "passed"
    /\ idx = Len(PHASES)
    /\ result' = runnerRet'.value
    /\ runResult' = "True"
    /\ pc' = "done"
    /\ UNCHANGED idx

Next ==
    \/ RunPipeline
    \/ RunnerStart
    \/ \E q \in PhaseNames : ToolSave(q)
    \/ \E o \in AllOutcomes : OrchestratorCatchesRunner(o)
    \/ \E o \in AllOutcomes : OrchestratorNoResult(o)
    \/ \E o \in AllOutcomes : OrchestratorGateRejects(o)
    \/ \E o \in AllOutcomes : OrchestratorCatchesGate(o)
    \/ \E o \in AllOutcomes : OrchestratorNextPhase(o)
    \/ \E o \in AllOutcomes : OrchestratorReturnsTrue(o)

Spec == Init /\ [][Next]_vars

(***************************************************************************)
(* Properties.  Helpers first: reading the Progress Log and the histories. *)
(***************************************************************************)
\* read_progress()["phases"], empty when there is no record.
PhasesMap ==
    IF progressFile.exists /\ "phases" \in DOMAIN progressFile.content
    THEN progressFile.content.phases
    ELSE EmptyDict

EntryOf(p) == Get(PhasesMap, p, EmptyDict)

StatusOf(p) == Get(EntryOf(p), "status", "absent")

GatedPhases == {"discovery", "narrowing", "generation"}

LastInvoked == invoked[Len(invoked)]

\* The run ended with False at the i-th phase, and no later phase was started.
HaltedAt(i) ==
    /\ pc = "done"
    /\ runResult = "False"
    /\ Len(invoked) = i
    /\ \A j \in (i + 1)..Len(PHASES) : PHASES[j] \notin DOMAIN PhasesMap

\* C1: the phases are started in the order of PHASES with none skipped, and a
\* phase is started only after the phase before it handed back a result that
\* passed its gate.
C1_PhasesInOrder ==
    /\ Len(invoked) <= Len(PHASES)
    /\ \A i \in 1..Len(invoked) : invoked[i] = PHASES[i]
    /\ \A i \in 2..Len(invoked) :
          collab[PHASES[i - 1]] = "value" /\ gate[PHASES[i - 1]] = "True"

C1_Witness == pc = "executing" /\ Len(invoked) = Len(PHASES)

\* C2 (as claimed): when a result has passed its gate and the loop is about
\* to start the next phase, the Result Store slot of the phase that passed
\* holds exactly that result.
C2_GatePassPersists ==
    (pc = "loop" /\ idx > 1) => GetResult(stateFiles, PHASES[idx - 1]) = result

\* C3: when run() hands back no result (None, or the empty mapping that
\* run_pipeline treats alike), run_pipeline ends with False and no later phase
\* is started: none is invoked and none gets a Progress Log entry.
C3_NoResultHalts ==
    \A i \in 1..Len(invoked) :
        collab[invoked[i]] \in {"none", "empty"} => HaltedAt(i)

C3_Witness == pc = "done" /\ collab["migration"] = "none"

\* C4: when the result of discovery, narrowing or generation is rejected by
\* its gate, run_pipeline ends with False and no later phase is started.
C4_GateFailureHalts ==
    \A i \in 1..Len(invoked) :
        (invoked[i] \in GatedPhases /\ gate[invoked[i]] = "False") => HaltedAt(i)

C4_Witness ==
    pc = "done" /\ collab["generation"] = "value" /\ gate["generation"] = "False"

\* C5 (as claimed): whenever the run ended with False, the Progress Log entry
\* of the phase at which it halted has status failed and carries an error text.
C5_FailureIsRecorded ==
    (pc = "done" /\ runResult = "False") =>
        StatusOf(Phase) = "failed" /\ "error" \in DOMAIN EntryOf(Phase)

\* Every phase started so far got a mapping back from the collaborator
\* (empty ones allowed or not), and the gated ones a gate-valid one.
AllResultsGiven(kinds) ==
    \A i \in 1..Len(invoked) :
        /\ collab[invoked[i]] \in kinds
        /\ invoked[i] \in GatedPhases => gate[invoked[i]] = "True"

AllCompleted ==
    runResult = "True" /\ \A p \in PhaseNames : StatusOf(p) = "completed"

\* C6 (as claimed): with gate-valid results for discovery, narrowing and
\* generation and arbitrary mappings for migration and validation, the run
\* ends with True and all five phases completed.
C6_ArbitraryResultsSucceed ==
    (pc = "done" /\ AllResultsGiven({"value", "empty"})) => AllCompleted

\* C6 (amended): with gate-valid results for discovery, narrowing and
\* generation and arbitrary non-empty mappings for migration and validation,
\* the run ends with True and all five phases completed.
C6_NonEmptyResultsSucceed ==
    (pc = "done" /\ AllResultsGiven({"value"})) => AllCompleted

C6_Witness ==
    /\ pc = "done"
    /\ runResult = "True"
    /\ Get(result.value, "phase", "None") # "validation"
    /\ "checks" \notin DOMAIN result.value

\* C7: an exception raised while a phase executes (by the collaborator, or
\* by a gate that trips over a malformed item) never leaves run_pipeline:
\* the run ends with False and no later phase is started.
C7_ExceptionsBecomeFalse ==
    /\ runResult # "raised"
    /\ \A i \in 1..Len(invoked) :
          (\/ collab[invoked[i]] = "raised"
           \/ gate[invoked[i]] \notin {"notrun", "True", "False"}) => HaltedAt(i)

C7_Witness == pc = "done" /\ collab["narrowing"] = "raised"

\* C8: no phase's collaborator is invoked twice in a run, and at most one
\* phase has status in_progress in the Progress Log.
C8_OnePhaseAtATime ==
    /\ \A i, j \in 1..Len(invoked) : i # j => invoked[i] # invoked[j]
    /\ Cardinality({p \in DOMAIN PhasesMap : StatusOf(p) = "in_progress"}) <= 1

C8_Witness ==
    /\ pc = "executing"
    /\ StatusOf("generation") = "in_progress"
    /\ StatusOf("narrowing") = "completed"

GenericError(p) == <<"Phase", p, "produced no results">>

\* run() has returned normally from the phase started last.
RunnerReturnedNormally ==
    pc \in {"loop", "done"} /\ invoked # <<>> /\ runnerRet.kind = "value"

\* C9 (as claimed): the phase is in_progress while the collaborator runs;
\* when run() returns normally the phase is completed if the collaborator
\* handed back a result and failed with the generic text if it handed back
\* none.
C9_CompletedIffResult ==
    /\ pc = "executing" => StatusOf(Phase) = "in_progress"
    /\ RunnerReturnedNormally =>
          IF ~runnerRet.value.isNone
          THEN StatusOf(LastInvoked) = "completed"
          ELSE /\ StatusOf(LastInvoked) = "failed"
               /\ Get(EntryOf(LastInvoked), "error", <<>>) = GenericError(LastInvoked)

\* C9 (amended): the phase is in_progress while the collaborator runs; when
\* run() returns normally the phase is completed if the collaborator handed
\* back a non-empty result, and failed with the generic text if it handed back
\* None or an empty mapping; it is never left in_progress.
C9_CompletedIffTruthy ==
    /\ pc = "executing" => StatusOf(Phase) = "in_progress"
    /\ RunnerReturnedNormally =>
          IF Truthy(runnerRet.value)
          THEN StatusOf(LastInvoked) = "completed"
          ELSE /\ StatusOf(LastInvoked) = "failed"
               /\ Get(EntryOf(LastInvoked), "error", <<>>) = GenericError(LastInvoked)

C9_Witness ==
    /\ pc = "done"
    /\ runnerRet = Returned(DictValue(EmptyDict))
    /\ StatusOf(LastInvoked) = "failed"

\* C10: when the collaborator raises, the phase is recorded as failed with
\* the exception's message as its error text, and run() raises the same
\* exception to its caller.
C10_RaiseIsRecordedAndReraised ==
    awaited.kind = "raised" =>
        /\ StatusOf(LastInvoked) = "failed"
        /\ Get(EntryOf(LastInvoked), "error", <<>>) = <<awaited.error>>
        /\ runnerRet = awaited

C10_Witness == pc = "done" /\ awaited = Raised("boom") /\ LastInvoked = "generation"

(***************************************************************************)
(* The validation gates on their own (pipeline/gates.py): a gate is called *)
(* with a result drawn from GateResults.  The results cover what a caller  *)
(* can pass: None, and dicts with or without a phase tag and with or       *)
(* without a value under one of the three collection keys; that value is a *)
(* list of up to MaxGateItems items, a string or a mapping.                *)
(***************************************************************************)
MaxGateItems == 2      \* longest item list a gate is called with

\* A migration with the two fields set to the given strings.
Migration(query, code) == DictItem([graphql_query |-> query, new_code |-> code])

\* Migrations that lack a field, or carry an empty or a blank one.
IncompleteMigrations ==
    {DictItem([new_code |-> <<"c">>]), DictItem([graphql_query |-> <<"q">>])}
        \cup {Migration(s, <<"c">>) : s \in {<<>>, <<" ">>}}
        \cup {Migration(<<"q">>, s) : s \in {<<>>, <<" ">>}}

GateItems ==
    {ValidItem, Migration(<<" ", "q", " ">>, <<"c">>), NonDictItem}
        \cup IncompleteMigrations

GateCollections ==
    {ListOf(q) : q \in SeqsUpTo(GateItems, MaxGateItems)}
        \cup {NonList(shape, n) : shape \in {"str", "dict"}, n \in 0..1}

GatedKeys == {"usages", "narrowed_usages", "generated_migrations"}

GateResults ==
    LET tags  == {EmptyDict} \cup
                 {[phase |-> p] : p \in {"discovery", "narrowing", "generation", "migration"}}
        colls == {EmptyDict} \cup {k :> c : k \in GatedKeys, c \in GateCollections}
    IN  {NoneValue} \cup
        {DictValue([timestamp |-> "t"] @@ tag @@ coll) : tag \in tags, coll \in colls}

\* The gate of a gated phase.
GateOf(phase, r) ==
    CASE phase = "discovery"  -> ValidateDiscoveryGate(r)
      [] phase = "narrowing"  -> ValidateNarrowingGate(r)
      [] OTHER                -> ValidateGenerationGate(r)

InitGates ==
    /\ PipelineIdle
    /\ EmptyWorkDir
    /\ NoStoreCall
    /\ NoLogCall
    /\ NoGitCall
    /\ NoTestRun
    /\ NoCliCall
    /\ NoWriters
    /\ gateArg \in GateResults
    /\ gatePhase = "none"
    /\ gateRet = "pending"

\* validate_<phase>_gate(gateArg) is called and returns or raises.
CallGate(phase) ==
    /\ gatePhase' = phase
    /\ gateRet' = GateOf(phase, gateArg)
    /\ UNCHANGED <<gateArg, pipelineVars, progressFile, stateFiles, now, storeVars,
                   logVars, gitVars, bridgeVars, cliVars, writerVars>>

NextGates == \E phase \in GatedPhases : CallGate(phase)

SpecGates == InitGates /\ [][NextGates]_vars

(***************************************************************************)
(* Properties of the gates.  Helpers: what the called gate was given.      *)
(***************************************************************************)
GateCalled == gateRet # "pending"

\* The phase tag of the argument ("None" when absent).
ArgTag == IF gateArg.isNone THEN "None" ELSE Get(gateArg.value, "phase", "None")

\* The argument carries a value under the called gate's collection key.
ArgHasCollection ==
    ~gateArg.isNone /\ CollectionKey(gatePhase) \in DOMAIN gateArg.value

ArgCollection == gateArg.value[CollectionKey(gatePhase)]

\* A string with a character that is no whitespace.
NonBlank(s) == \E i \in 1..Len(s) : ~IsSpace(s[i])

\* An item that is a mapping with a non-blank query and a non-blank code.
CompleteMigration(m) ==
    /\ m.isDict
    /\ "graphql_query" \in DOMAIN m.fields /\ NonBlank(m.fields["graphql_query"])
    /\ "new_code" \in DOMAIN m.fields /\ NonBlank(m.fields["new_code"])

AllComplete(c) == \A i \in 1..Len(c.elems) : CompleteMigration(c.elems[i])

\* C11: the gate of a gated phase P returns normally for every mapping whose
\* phase tag is P and whose required collection is non-empty (for generation:
\* with every item having a non-blank query and a non-blank code).
C11_WellFormedResultPasses ==
    (/\ GateCalled
     /\ ArgTag = gatePhase
     /\ ArgHasCollection
     /\ Len(ArgCollection.elems) > 0
     /\ gatePhase = "generation" => AllComplete(ArgCollection))
        => gateRet = "ok"

C11_Witness ==
    /\ GateCalled /\ gatePhase = "generation" /\ ArgTag = "generation"
    /\ ArgHasCollection
    /\ ArgCollection = ListOf(<<ValidItem, Migration(<<" ", "q", " ">>, <<"c">>)>>)
    /\ gateRet = "ok"

\* C12: a result that lacks the phase tag, carries another phase's tag, or
\* has its required collection empty or missing makes the gate raise GateError.
C12_MalformedResultRejected ==
    (/\ GateCalled
     /\ ~gateArg.isNone
     /\ \/ ArgTag # gatePhase
        \/ ~ArgHasCollection
        \/ Len(ArgCollection.elems) = 0)
        => gateRet = "GateError"

C12_Witness ==
    /\ GateCalled /\ gatePhase = "discovery" /\ ~gateArg.isNone
    /\ "phase" \notin DOMAIN gateArg.value
    /\ ArgHasCollection /\ ArgCollection = ListOf(<<ValidItem>>)
    /\ gateRet = "GateError"

\* C13: a gate accepts a result only if its collection exists and is a list;
\* a value that is no list (a non-empty string, a mapping) is rejected with
\* GateError.
C13_NonListRejected ==
    /\ (GateCalled /\ gateRet = "ok")
            => (ArgHasCollection /\ ArgCollection.shape = "list")
    /\ (GateCalled /\ ArgHasCollection /\ ArgCollection.shape # "list")
            => gateRet = "GateError"

UngatedPhases == PhaseNames \ GatedPhases

\* The run ended with False in phase p.
HaltedIn(p) == pc = "done" /\ runResult # "True" /\ LastInvoked = p

\* C15 (as claimed): once migration or validation has handed back a result,
\* _validate_phase_result accepts it whatever it holds, and the run does not
\* halt in that phase.
C15_UngatedResultNeverHalts ==
    \A p \in UngatedPhases :
        collab[p] \in {"value", "empty"} => (gate[p] = "True" /\ ~HaltedIn(p))

\* C15 (amended): once migration or validation has handed back a non-empty
\* result, _validate_phase_result accepts it whatever its phase tag and item
\* list hold, and the run does not halt in that phase.
C15_NonEmptyUngatedResultNeverHalts ==
    \A p \in UngatedPhases :
        collab[p] = "value" => (gate[p] = "True" /\ ~HaltedIn(p))

C15_Witness ==
    /\ pc = "done" /\ runResult = "True" /\ collab["validation"] = "value"
    /\ Get(result.value, "phase", "None") = "discovery"
    /\ "checks" \in DOMAIN result.value
    /\ result.value["checks"] = ListOf(<<NonDictItem>>)

(***************************************************************************)
(* The Result Store on its own (state/manager.py): StateManager instances  *)
(* built on one working directory, and save_*_result / get_*_result calls  *)
(* made on them in any order.                                              *)
(***************************************************************************)
MaxStores == 2         \* StateManager instances built on the directory

\* A result with a foreign tag and a list of a blank migration and a number.
ForeignResult(phase) ==
    [phase |-> OtherPhase(phase)]
        @@ (CollectionKey(phase) :> ListOf(<<BlankItem, NonDictItem>>))

\* Results saved for a phase: a gate-valid one and a foreign one.
StoreResults ==
    [phase \in PhaseNames |-> {MinimalResult(phase), ForeignResult(phase)}]

AllStoreResults == UNION {StoreResults[p] : p \in PhaseNames}

InitStore ==
    /\ PipelineIdle
    /\ EmptyWorkDir
    /\ NoGateCall
    /\ NoStoreCall
    /\ NoLogCall
    /\ NoGitCall
    /\ NoTestRun
    /\ NoCliCall
    /\ NoWriters

\* StateManager(work_dir): the directory exists already and is left as it is.
NewStore ==
    /\ stores < MaxStores
    /\ stores' = stores + 1
    /\ UNCHANGED <<saved, got, stateFiles, progressFile, now, pipelineVars, gateVars,
                   logVars, gitVars, bridgeVars, cliVars, writerVars>>

\* save_<phase>_result(d) on instance i.
StoreSave(i, phase, d) ==
    /\ i <= stores
    /\ d \in StoreResults[phase]
    /\ stateFiles' = SaveResult(stateFiles, phase, d)
    /\ saved' = [of     |-> [saved.of EXCEPT ![phase] = DictValue(d)],
                 phase  |-> phase,
                 stores |-> stores]
    /\ got' = NoGet
    /\ UNCHANGED <<stores, progressFile, now, pipelineVars, gateVars, logVars,
                   gitVars, bridgeVars, cliVars, writerVars>>

\* get_<phase>_result() on instance i.
StoreGet(i, phase) ==
    /\ i <= stores
    /\ got' = [store |-> i, phase |-> phase, value |-> GetResult(stateFiles, phase)]
    /\ UNCHANGED <<saved, stores, stateFiles, progressFile, now, pipelineVars,
                   gateVars, logVars, gitVars, bridgeVars, cliVars, writerVars>>

NextStore ==
    \/ NewStore
    \/ \E i \in 1..MaxStores, phase \in PhaseNames, d \in AllStoreResults :
            StoreSave(i, phase, d)
    \/ \E i \in 1..MaxStores, phase \in PhaseNames : StoreGet(i, phase)

SpecStore == InitStore /\ [][NextStore]_vars

\* C16: get_<phase>_result returns a value equal to the one saved last for
\* the phase, whatever was saved before and whichever instance on the
\* directory is asked, and None if the phase was never saved.
C16_GetReturnsLastSaved ==
    got.phase # "none" => got.value = saved.of[got.phase]

\* A value saved before the asked instance was built is read back.
C16_Witness ==
    /\ got.phase = "narrowing" /\ saved.phase = "narrowing"
    /\ got.store > saved.stores
    /\ got.value = DictValue(ForeignResult("narrowing"))

\* C17: a save for one phase leaves the slots of the other phases as they
\* were: get_<Q>_result returns the same before and after save_<P>_result
\* for every phase Q other than P.
C17_SaveLeavesOtherSlots ==
    [][\A q \in PhaseNames :
          (saved' # saved /\ q # saved'.phase)
              => GetResult(stateFiles', q) = GetResult(stateFiles, q)]_vars

\* The slot of discovery is read back unchanged after a save for narrowing.
C17_Witness ==
    /\ saved.phase = "narrowing"
    /\ got.phase = "discovery"
    /\ got.value = DictValue(ForeignResult("discovery"))

\* C18: while phase P executes, the tool surface of its Phase Runner lets
\* the collaborator change P's own slot only: the slots of the other four
\* phases stay as they are.
C18_ToolSurfaceWritesOwnSlotOnly ==
    [][(pc = "executing" /\ pc' = "executing")
          => \A q \in PhaseNames \ {Phase} : stateFiles'[q] = stateFiles[q]]_vars

(***************************************************************************)
(* The Progress Log on its own (state/progress.py): the ProgressTracker's  *)
(* methods called in any order, up to MaxLogOps writing calls.  Every      *)
(* writing call reads the clock once; the clock moves on between calls.    *)
(***************************************************************************)
MaxLogOps == 3         \* writing calls made on the tracker

LogProjects == {ProjectName, "other-project"}

\* mark_* and add_session_log take any phase name; two are followed here.
LogPhases == {"discovery", "narrowing"}

LogSummaries == {<<"summary">>, <<>>}

LogErrors == {<<"boom">>, <<>>}

LogSessions == {"session-1"}

\* The entry appended to the history by a writing call.
LogOp(op, phase, arg) == [op |-> op, phase |-> phase, arg |-> arg, at |-> now]

\* What every writing call does besides changing the file.
Logged(op, phase, arg) ==
    /\ Len(logOps) < MaxLogOps
    /\ logOps' = Append(logOps, LogOp(op, phase, arg))
    /\ now' = now + 1
    /\ readRet' = NoRead
    /\ UNCHANGED <<stateFiles, pipelineVars, gateVars, storeVars, gitVars, bridgeVars, cliVars, writerVars>>

InitLog ==
    /\ PipelineIdle
    /\ EmptyWorkDir
    /\ NoGateCall
    /\ NoStoreCall
    /\ NoLogCall
    /\ NoGitCall
    /\ NoTestRun
    /\ NoCliCall
    /\ NoWriters

LogInit(project) ==
    /\ Logged("init", "none", <<project>>)
    /\ progressFile' = InitProgress(project, now)

LogMarkStarted(phase) ==
    /\ Logged("started", phase, <<>>)
    /\ progressFile' = MarkPhaseStarted(progressFile, phase, now)

LogMarkCompleted(phase, summary) ==
    /\ Logged("completed", phase, summary)
    /\ progressFile' = MarkPhaseCompleted(progressFile, phase, summary, now)

LogMarkFailed(phase, error) ==
    /\ Logged("failed", phase, error)
    /\ progressFile' = MarkPhaseFailed(progressFile, phase, error, now)

LogAddSession(phase, session) ==
    /\ Logged("session", phase, <<session>>)
    /\ progressFile' = AddSessionLog(progressFile, phase, session, "model", 0, now)

LogRead ==
    /\ readRet' = [fresh |-> TRUE, ret |-> ReadProgress(progressFile)]
    /\ UNCHANGED <<progressFile, now, logOps, stateFiles, pipelineVars, gateVars,
                   storeVars, gitVars, bridgeVars, cliVars, writerVars>>

NextLog ==
    \/ \E project \in LogProjects : LogInit(project)
    \/ \E phase \in LogPhases : LogMarkStarted(phase)
    \/ \E phase \in LogPhases, summary \in LogSummaries : LogMarkCompleted(phase, summary)
    \/ \E phase \in LogPhases, error \in LogErrors : LogMarkFailed(phase, error)
    \/ \E phase \in LogPhases, session \in LogSessions : LogAddSession(phase, session)
    \/ LogRead

SpecLog == InitLog /\ [][NextLog]_vars

(***************************************************************************)
(* Properties of the Progress Log.                                         *)
(***************************************************************************)
LastOp == logOps[Len(logOps)]

\* No writing call of one of the kinds was made.
NoOpOf(kinds) == \A i \in 1..Len(logOps) : logOps[i].op \notin kinds

\* The record init_progress(project) writes at time t.
FreshRecord(project, t) == [project |-> project, started_at |-> t, phases |-> EmptyDict]

\* C19 (as claimed): a read right after init(project) returns a record with
\* that project, the start time of that call and no phases, whatever the
\* file held before; a read before any init or mark returns None.
C19_InitResetsElseNoRecord ==
    readRet.fresh =>
        /\ (logOps # <<>> /\ LastOp.op = "init")
                => readRet.ret = DictValue(FreshRecord(LastOp.arg[1], LastOp.at))
        /\ NoOpOf({"init", "started", "completed", "failed"}) => readRet.ret = NoneValue

\* C19 (amended): the same, with the read returning None before any init,
\* mark or addSessionLog.
C19_InitResetsElseNoRecordBeforeAnyWrite ==
    readRet.fresh =>
        /\ (logOps # <<>> /\ LastOp.op = "init")
                => readRet.ret = DictValue(FreshRecord(LastOp.arg[1], LastOp.at))
        /\ logOps = <<>> => readRet.ret = NoneValue

\* A record with a phase entry that holds a session log is replaced by init.
C19_Witness ==
    /\ readRet.fresh
    /\ Len(logOps) = 3
    /\ logOps[1].op = "started" /\ logOps[2].op = "session"
    /\ logOps[2].phase = logOps[1].phase
    /\ LastOp.op = "init" /\ LastOp.arg = <<"other-project">>
    /\ readRet.ret = DictValue(FreshRecord("other-project", 2))

\* The i-th writing call was init, or a mark_* call on phase p.
Rewrites(i, p) ==
    \/ logOps[i].op = "init"
    \/ logOps[i].phase = p /\ logOps[i].op \in {"started", "completed", "failed"}

\* The i-th writing call was mark_phase_started(p), and neither init nor a
\* mark_* call on p was made between it and the last call.
StartedBeforeLast(i, p) ==
    /\ logOps[i].op = "started" /\ logOps[i].phase = p
    /\ \A j \in (i + 1)..(Len(logOps) - 1) : ~Rewrites(j, p)

\* C20: mark_phase_started(p) leaves p in_progress, and a following
\* mark_phase_completed(p, summary) leaves it completed, with the started_at
\* written by mark_phase_started, a completed_at and exactly that summary.
C20_StartedThenCompleted ==
    logOps # <<>> =>
        LET p == LastOp.phase
        IN  /\ LastOp.op = "started" =>
                  /\ StatusOf(p) = "in_progress"
                  /\ Get(EntryOf(p), "started_at", -1) = LastOp.at
            /\ LastOp.op = "completed" =>
                  \A i \in 1..(Len(logOps) - 1) :
                      StartedBeforeLast(i, p) =>
                          /\ StatusOf(p) = "completed"
                          /\ Get(EntryOf(p), "started_at", -1) = logOps[i].at
                          /\ Get(EntryOf(p), "completed_at", -1) = LastOp.at
                          /\ Get(EntryOf(p), "summary", <<"None">>) = LastOp.arg

C20_Witness ==
    /\ Len(logOps) = 3
    /\ logOps[2].op = "started" /\ logOps[2].phase = "narrowing"
    /\ LastOp.op = "completed" /\ LastOp.phase = "narrowing"
    /\ LastOp.arg = <<"summary">>
    /\ StatusOf("narrowing") = "completed"
    /\ Get(EntryOf("narrowing"), "started_at", -1) = 1
    /\ Get(EntryOf("narrowing"), "completed_at", -1) = 2

\* C21: after mark_phase_failed(p, e) the entry of p has status failed and
\* error exactly e, whether p had an entry before or not.
C21_FailedCarriesError ==
    (logOps # <<>> /\ LastOp.op = "failed") =>
        /\ StatusOf(LastOp.phase) = "failed"
        /\ Get(EntryOf(LastOp.phase), "error", <<"None">>) = LastOp.arg

\* A completed phase is marked failed.
C21_Witness ==
    /\ Len(logOps) = 3
    /\ logOps[2].op = "completed" /\ logOps[2].phase = "narrowing"
    /\ LastOp.op = "failed" /\ LastOp.phase = "narrowing" /\ LastOp.arg = <<"boom">>
    /\ StatusOf("narrowing") = "failed"
    /\ Get(EntryOf("narrowing"), "error", <<"None">>) = <<"boom">>

(***************************************************************************)
(* Properties of the Progress Log in a pipeline run.                       *)
(***************************************************************************)
\* The status of phase p in the record of progress file f.
StatusIn(f, p) ==
    IF f.exists /\ "phases" \in DOMAIN f.content
    THEN Get(Get(f.content.phases, p, EmptyDict), "status", "absent")
    ELSE "absent"

\* The moves of a status that keep it monotonic.
MonotonicMove(before, after) ==
    \/ after = before
    \/ before = "absent" /\ after = "in_progress"
    \/ before = "in_progress" /\ after \in {"completed", "failed"}

\* C22: within a run (after its init_progress) the status of a phase only
\* moves from absent to in_progress and from in_progress to completed or
\* failed, and never changes once it is completed or failed.
C22_StatusMonotonicInRun ==
    [][pc # "idle" =>
          \A p \in PhaseNames :
              MonotonicMove(StatusIn(progressFile, p), StatusIn(progressFile', p))]_vars

\* Two phases have reached a final status, the third was never started.
C22_Witness ==
    /\ pc = "done"
    /\ StatusOf("discovery") = "completed"
    /\ StatusOf("narrowing") = "failed"
    /\ StatusOf("generation") = "absent"

\* C23: after any sequence of Progress Log calls every phase entry in the
\* record has a status among in_progress, completed, failed and a started_at.
C23_EntriesHaveStatusAndStart ==
    \A p \in DOMAIN PhasesMap :
        /\ StatusOf(p) \in {"in_progress", "completed", "failed"}
        /\ "started_at" \in DOMAIN EntryOf(p)

\* The phases mapping and the entry of phase p in the record of file f.
PhasesIn(f) ==
    IF f.exists /\ "phases" \in DOMAIN f.content THEN f.content.phases ELSE EmptyDict

EntryIn(f, p) == Get(PhasesIn(f), p, EmptyDict)

\* Key k is in both entries with one value, or in neither.
SameField(e1, e2, k) ==
    /\ k \in DOMAIN e1 <=> k \in DOMAIN e2
    /\ (k \in DOMAIN e1 /\ k \in DOMAIN e2) => e1[k] = e2[k]

SameEntry(e1, e2) == \A k \in DOMAIN e1 \cup DOMAIN e2 : SameField(e1, e2, k)

\* The step is a writing call on the tracker; WrittenOp is that call.
WritingStep == Len(logOps') = Len(logOps) + 1

WrittenOp == logOps'[Len(logOps')]

\* C24: mark_phase_completed, mark_phase_failed and add_session_log leave the
\* started_at of their phase as it was (present with the same value, or
\* absent), and a call on one phase leaves the entries of all other phases,
\* and whether they exist, as they were.
C24_StartedAtOnlyByMarkStarted ==
    [][WritingStep =>
          /\ WrittenOp.op \in {"completed", "failed", "session"} =>
                SameField(EntryIn(progressFile', WrittenOp.phase),
                          EntryIn(progressFile, WrittenOp.phase), "started_at")
          /\ WrittenOp.op # "init" =>
                \A q \in LogPhases \ {WrittenOp.phase} :
                    /\ q \in DOMAIN PhasesIn(progressFile')
                           <=> q \in DOMAIN PhasesIn(progressFile)
                    /\ SameEntry(EntryIn(progressFile', q), EntryIn(progressFile, q))]_vars

\* A started phase is marked failed while another phase has an entry.
C24_Witness ==
    /\ Len(logOps) = 3
    /\ logOps[1].op = "started" /\ logOps[1].phase = "discovery"
    /\ logOps[2].op = "started" /\ logOps[2].phase = "narrowing"
    /\ LastOp.op = "failed" /\ LastOp.phase = "narrowing"
    /\ Get(EntryOf("narrowing"), "started_at", -1) = 1
    /\ StatusOf("discovery") = "in_progress"

\* The session list of phase p in the record of file f ([] when absent).
SessionsIn(f, p) == Get(EntryIn(f, p), "sessions", <<>>)

\* C25: add_session_log appends one entry, with the given session id, at the
\* end of the phase's session list, keeps the earlier entries in their order
\* and leaves the phase's status and timestamps as they were; the mark_*
\* calls leave every session list as it was.
C25_SessionLogAdditive ==
    [][WritingStep =>
          /\ WrittenOp.op = "session" =>
                LET before == SessionsIn(progressFile, WrittenOp.phase)
                    after  == SessionsIn(progressFile', WrittenOp.phase)
                IN  /\ Len(after) = Len(before) + 1
                    /\ SubSeq(after, 1, Len(before)) = before
                    /\ after[Len(after)].session_id = WrittenOp.arg[1]
                    /\ \A k \in {"status", "started_at", "completed_at", "failed_at"} :
                          SameField(EntryIn(progressFile', WrittenOp.phase),
                                    EntryIn(progressFile, WrittenOp.phase), k)
          /\ WrittenOp.op \in {"started", "completed", "failed"} =>
                \A q \in LogPhases : SessionsIn(progressFile', q) = SessionsIn(progressFile, q)]_vars

\* A second session is logged for a phase that was started in between.
C25_Witness ==
    /\ Len(logOps) = 3
    /\ logOps[1].op = "session" /\ logOps[1].phase = "discovery"
    /\ logOps[2].op = "started" /\ logOps[2].phase = "discovery"
    /\ LastOp.op = "session" /\ LastOp.phase = "discovery"
    /\ Len(Get(EntryOf("discovery"), "sessions", <<>>)) = 2
    /\ Get(EntryOf("discovery"), "sessions", <<>>)[1].logged_at = 0
    /\ Get(EntryOf("discovery"), "sessions", <<>>)[2].logged_at = 2
    /\ StatusOf("discovery") = "in_progress"

(***************************************************************************)
(* Checkpoint Manager (pipeline/rollback.py) and the git commands it runs. *)
(* The repository holds one tracked file; its states are numbers.  A       *)
(* branch name is the sequence of its parts.  A git command yields         *)
(* [ok, repo, stderr]: its exit status, the repository it leaves and the   *)
(* text on its standard error.                                             *)
(***************************************************************************)
\* f"savepoint/{phase}"
SavepointName(phase) == <<"savepoint", "/", phase>>

GitOk(r) == [ok |-> TRUE, repo |-> r, stderr |-> <<>>]

GitFails(r, text) == [ok |-> FALSE, repo |-> r, stderr |-> text]

\* The file state of the commit HEAD points at.
HeadTree(r) == r.commits[r.branches[r.head]].tree

\* The file state of the commit a branch points at.
BranchTree(r, name) == r.commits[r.branches[name]].tree

\* Mutant of GitCheckoutNewBranch: `checkout -B`, which resets a branch that
\* exists already.
GitCheckoutResetBranch(r, name) ==
    GitOk([r EXCEPT !.branches = [b \in DOMAIN r.branches \cup {name} |->
                                     IF b = name THEN r.branches[r.head]
                                     ELSE r.branches[b]],
                    !.head = name])

\* `git checkout -b name`: a new branch at the commit of HEAD, checked out;
\* the working tree is kept.  Fails when the branch exists.
GitCheckoutNewBranch(r, name) ==
    IF name \in DOMAIN r.branches
    THEN GitFails(r, <<"fatal: a branch named">> \o name \o <<"already exists">>)
    ELSE GitOk([r EXCEPT !.branches = [b \in DOMAIN r.branches \cup {name} |->
                                          IF b = name THEN r.branches[r.head]
                                          ELSE r.branches[b]],
                         !.head = name])

\* `git checkout name`.  Fails when there is no such branch, and when the
\* file has local changes that the switch would overwrite; local changes
\* are carried along when the file is the same in both commits.
GitCheckout(r, name) ==
    IF name \notin DOMAIN r.branches
    THEN GitFails(r, <<"error: pathspec">> \o name \o <<"did not match">>)
    ELSE IF name = r.head THEN GitOk(r)
    ELSE IF r.worktree = HeadTree(r)
    THEN GitOk([r EXCEPT !.head = name, !.worktree = BranchTree(r, name)])
    ELSE IF BranchTree(r, name) = HeadTree(r)
    THEN GitOk([r EXCEPT !.head = name])
    ELSE GitFails(r, <<"error: Your local changes would be overwritten by checkout">>)

\* `git branch -D name`.  Fails when there is no such branch, and when the
\* branch is the one checked out.
GitBranchDelete(r, name) ==
    IF name \notin DOMAIN r.branches
    THEN GitFails(r, <<"error: branch">> \o name \o <<"not found">>)
    ELSE IF name = r.head
    THEN GitFails(r, <<"error: Cannot delete branch">> \o name \o <<"checked out">>)
    ELSE GitOk([r EXCEPT !.branches = [b \in DOMAIN r.branches \ {name} |->
                                          r.branches[b]]])

\* `git branch`: the names of the branches.
GitBranchList(r) == DOMAIN r.branches

\* `git add . && git commit`: a new commit on the branch checked out.
GitCommit(r) ==
    IF r.worktree = HeadTree(r)
    THEN GitFails(r, <<"nothing to commit, working tree clean">>)
    ELSE GitOk([r EXCEPT
            !.commits = Append(r.commits,
                               [tree |-> r.worktree, parent |-> r.branches[r.head]]),
            !.branches = [r.branches EXCEPT ![r.head] = Len(r.commits) + 1]])

\* What a RollbackManager method leaves: the repository, and the call with
\* its return value or the RuntimeError it raised.
Returns(r, op, name, ret) ==
    [repo |-> r,
     call |-> [op |-> op, name |-> name, raised |-> FALSE, ret |-> ret, error |-> <<>>]]

Raises(r, op, name, text) ==
    [repo |-> r,
     call |-> [op |-> op, name |-> name, raised |-> TRUE, ret |-> <<>>, error |-> text]]

\* Mutant of CreateSavepoint: the branch is created but not checked out.
CreateSavepointWithoutCheckout(r, phase) ==
    LET name == SavepointName(phase)
        git  == GitCheckoutNewBranch(r, name)
    IN  IF git.ok
        THEN Returns([git.repo EXCEPT !.head = r.head], "create", name, name)
        ELSE Raises(git.repo, "create", name,
                    <<"Failed to create savepoint:">> \o git.stderr)

\* create_savepoint: `git checkout -b savepoint/{phase}`; the name is
\* returned, or RuntimeError raised with the text git wrote.
CreateSavepoint(r, phase) ==
    LET name == SavepointName(phase)
        git  == GitCheckoutNewBranch(r, name)
    IN  IF git.ok
        THEN Returns(git.repo, "create", name, name)
        ELSE Raises(git.repo, "create", name,
                    <<"Failed to create savepoint:">> \o git.stderr)

\* Mutant of RollbackToSavepoint: the branch checked out is reset to the
\* savepoint instead (`git reset --hard`).
RollbackByReset(r, name) ==
    IF name \notin DOMAIN r.branches
    THEN Raises(r, "rollback", name, <<"Failed to rollback to savepoint:">>)
    ELSE Returns([r EXCEPT !.branches = [r.branches EXCEPT ![r.head] = r.branches[name]],
                           !.worktree = BranchTree(r, name)],
                 "rollback", name, <<>>)

\* rollback_to_savepoint: `git branch -a`, whose output is not used, then
\* `git checkout name`; RuntimeError with the text git wrote when it fails.
RollbackToSavepoint(r, name) ==
    LET git == GitCheckout(r, name)
    IN  IF git.ok
        THEN Returns(git.repo, "rollback", name, <<>>)
        ELSE Raises(git.repo, "rollback", name,
                    <<"Failed to rollback to savepoint:">> \o git.stderr)

\* Mutant of DeleteSavepoint: a failure of git is raised.
DeleteSavepointRaising(r, name) ==
    LET git == GitBranchDelete(r, name)
    IN  IF git.ok
        THEN Returns(git.repo, "delete", name, <<>>)
        ELSE Raises(git.repo, "delete", name, git.stderr)

\* delete_savepoint: `git branch -D name`; a failure of git is ignored.
DeleteSavepoint(r, name) ==
    Returns(GitBranchDelete(r, name).repo, "delete", name, <<>>)

(***************************************************************************)
(* The Checkpoint Manager on its own: its three methods called in any      *)
(* order on one repository, between the caller's own edits, commits and    *)
(* checkouts.  Phases are named by plain words; the repository has a first *)
(* commit.                                                                 *)
(***************************************************************************)
MaxEdits == 2          \* edits of the file
MaxCommits == 2        \* commits made after the first one

\* Phases savepoints are made for.
SavePhases == {"generation", "migration"}

\* Branch names the methods are called with.
BranchNames == {<<"main">>} \cup {SavepointName(phase) : phase \in SavePhases}

InitGit ==
    /\ PipelineIdle
    /\ EmptyWorkDir
    /\ NoGateCall
    /\ NoStoreCall
    /\ NoLogCall
    /\ NoGitCall
    /\ NoTestRun
    /\ NoCliCall
    /\ NoWriters

\* What every step on the repository leaves alone.
OnlyGit == UNCHANGED <<pipelineVars, progressFile, stateFiles, now, gateVars,
                       storeVars, logVars, bridgeVars, cliVars, writerVars>>

\* The history kept over an edit, a commit or a rollback: dropped once a
\* rollback or a delete was called after the savepoint was made.
OnlyEditsSince ==
    IF gitCall.op \in {"rollback", "delete"} THEN EmptyDict ELSE recorded

\* create_savepoint(phase) is called.
GitCreate(phase) ==
    LET out == CreateSavepoint(repo, phase)
    IN  /\ repo' = out.repo
        /\ gitCall' = out.call
        /\ recorded' = IF out.call.raised THEN EmptyDict
                        ELSE (out.call.name :> out.repo.worktree)
        /\ OnlyGit

\* rollback_to_savepoint(name) is called.
GitRollback(name) ==
    LET out == RollbackToSavepoint(repo, name)
    IN  /\ repo' = out.repo
        /\ gitCall' = out.call
        /\ recorded' = OnlyEditsSince
        /\ OnlyGit

\* delete_savepoint(name) is called.
GitDelete(name) ==
    LET out == DeleteSavepoint(repo, name)
    IN  /\ repo' = out.repo
        /\ gitCall' = out.call
        /\ recorded' = EmptyDict
        /\ OnlyGit

\* The caller edits the file.
UserEdit ==
    /\ repo.edits < MaxEdits
    /\ repo' = [repo EXCEPT !.worktree = repo.edits + 1, !.edits = repo.edits + 1]
    /\ gitCall' = NoCall
    /\ recorded' = OnlyEditsSince
    /\ OnlyGit

\* The caller commits the edited file.
UserCommit ==
    /\ Len(repo.commits) < 1 + MaxCommits
    /\ GitCommit(repo).ok
    /\ repo' = GitCommit(repo).repo
    /\ gitCall' = NoCall
    /\ recorded' = OnlyEditsSince
    /\ OnlyGit

\* The caller checks a branch out.
UserCheckout(name) ==
    /\ name # repo.head
    /\ GitCheckout(repo, name).ok
    /\ repo' = GitCheckout(repo, name).repo
    /\ gitCall' = NoCall
    /\ recorded' = EmptyDict
    /\ OnlyGit

NextGit ==
    \/ \E phase \in SavePhases : GitCreate(phase)
    \/ \E name \in BranchNames : GitRollback(name)
    \/ \E name \in BranchNames : GitDelete(name)
    \/ UserEdit
    \/ UserCommit
    \/ \E name \in BranchNames : UserCheckout(name)

SpecGit == InitGit /\ [][NextGit]_vars

(***************************************************************************)
(* Properties of the Checkpoint Manager.                                   *)
(***************************************************************************)
\* The step is a call of the method `op`; gitCall' tells how it ended.
CallStep(op) == gitCall'.op = op /\ <<repo, gitCall, recorded>>' # <<repo, gitCall, recorded>>

\* C26: create_savepoint(phase), called when no branch savepoint/{phase}
\* exists, returns exactly that name; the name is then among the branches
\* and is the branch checked out, and the branches that existed are kept.
C26_CreateSavepointMakesBranch ==
    [][\A phase \in SavePhases :
          (/\ CallStep("create")
           /\ gitCall'.name = <<"savepoint", "/", phase>>
           /\ <<"savepoint", "/", phase>> \notin GitBranchList(repo))
              => /\ ~gitCall'.raised
                 /\ gitCall'.ret = <<"savepoint", "/", phase>>
                 /\ <<"savepoint", "/", phase>> \in GitBranchList(repo')
                 /\ repo'.head = <<"savepoint", "/", phase>>
                 /\ GitBranchList(repo) \subseteq GitBranchList(repo')]_vars

\* The savepoint of migration is made while the one of generation exists.
C26_Witness ==
    /\ gitCall.op = "create" /\ ~gitCall.raised
    /\ gitCall.ret = <<"savepoint", "/", "migration">>
    /\ repo.head = <<"savepoint", "/", "migration">>
    /\ {<<"savepoint", "/", "generation">>, <<"savepoint", "/", "migration">>}
           \subseteq GitBranchList(repo)

\* C27: create_savepoint(phase), called while branch savepoint/{phase}
\* exists, raises RuntimeError with the text git wrote, and leaves the
\* branches and the branch checked out as they were.
C27_SecondSavepointFails ==
    [][\A phase \in SavePhases :
          (/\ gitCall'.op = "create"
           /\ gitCall'.name = <<"savepoint", "/", phase>>
           /\ <<"savepoint", "/", phase>> \in GitBranchList(repo))
              => /\ gitCall'.raised
                 /\ gitCall'.error =
                        <<"Failed to create savepoint:", "fatal: a branch named",
                          "savepoint", "/", phase, "already exists">>
                 /\ repo' = repo]_vars

\* The savepoint of migration is asked for again after the caller went back
\* to main.
C27_Witness ==
    /\ gitCall.op = "create" /\ gitCall.raised
    /\ gitCall.name = <<"savepoint", "/", "migration">>
    /\ repo.head = <<"main">>
    /\ <<"savepoint", "/", "migration">> \in GitBranchList(repo)

\* The names savepoints have.
SavepointNames == {<<"savepoint", "/", phase>> : phase \in SavePhases}

\* C28: after delete_savepoint(name) has returned, the savepoint is not among
\* the branches, also when it is called directly after the create_savepoint
\* that made it.
C28_DeletedSavepointIsGone ==
    (gitCall.op = "delete" /\ gitCall.name \in SavepointNames)
        => gitCall.name \notin GitBranchList(repo)

\* C29: delete_savepoint for a name that is no branch, or called a second
\* time in a row for the same name, raises nothing and leaves the branches,
\* the branch checked out and the rest of the repository as they were.
C29_DeleteIsIdempotent ==
    [][(/\ gitCall'.op = "delete"
        /\ \/ gitCall'.name \notin GitBranchList(repo)
           \/ gitCall.op = "delete" /\ gitCall.name = gitCall'.name)
           => /\ ~gitCall'.raised
              /\ GitBranchList(repo') = GitBranchList(repo)
              /\ repo'.head = repo.head
              /\ repo' = repo]_vars

\* delete_savepoint is the first call on the new repository.
C29_Witness ==
    /\ gitCall.op = "delete" /\ ~gitCall.raised
    /\ gitCall.name = <<"savepoint", "/", "migration">>
    /\ repo = NewRepo

\* C30: after create_savepoint, edits and commits, and then
\* rollback_to_savepoint of that savepoint, the savepoint is the branch
\* checked out and the file is as it was when create_savepoint returned.
C30_RollbackRestoresFileState ==
    (/\ gitCall.op = "rollback" /\ ~gitCall.raised
     /\ gitCall.name \in DOMAIN recorded)
        => /\ repo.head = gitCall.name
           /\ repo.worktree = recorded[gitCall.name]

\* The commits of a branch, newest first: its history.
RECURSIVE HistoryFrom(_, _)
HistoryFrom(r, c) == IF c = 0 THEN <<>> ELSE <<c>> \o HistoryFrom(r, r.commits[c].parent)

BranchHistory(r, name) == HistoryFrom(r, r.branches[name])

\* C31: rollback_to_savepoint leaves the set of branches and the history of
\* every branch as they were, the caller's branch included; for a name that
\* is no branch it raises RuntimeError and the branch checked out stays.
C31_RollbackOnlySwitches ==
    [][gitCall'.op = "rollback"
          => /\ GitBranchList(repo') = GitBranchList(repo)
             /\ \A b \in GitBranchList(repo) :
                    /\ BranchHistory(repo', b) = BranchHistory(repo, b)
                    /\ \A c \in 1..Len(repo.commits) : repo'.commits[c] = repo.commits[c]
             /\ gitCall'.name \notin GitBranchList(repo)
                    => /\ gitCall'.raised
                       /\ gitCall'.error = <<"Failed to rollback to savepoint:", "error: pathspec">>
                                               \o gitCall'.name \o <<"did not match">>
                       /\ repo'.head = repo.head]_vars

\* A rollback to a savepoint from which the branch main has moved on.
C31_Witness ==
    /\ gitCall.op = "rollback" /\ ~gitCall.raised
    /\ gitCall.name \in SavepointNames
    /\ repo.head = gitCall.name
    /\ <<"main">> \in GitBranchList(repo)
    /\ BranchHistory(repo, <<"main">>) # BranchHistory(repo, gitCall.name)
    /\ Len(BranchHistory(repo, <<"main">>)) > 1

(***************************************************************************)
(* The Report Bridge (GradleRunner).  A text is a sequence of pieces; the  *)
(* pieces of a marker's message or body stand for CharsPerPiece characters *)
(* each, so that the cut at 500 characters falls between two pieces.       *)
(***************************************************************************)
MaxFiles == 2          \* files in the report directory
MaxCases == 2          \* <testcase> elements in one report file
MaxPieces == 3         \* pieces in the longest message or body text

CharsPerPiece == 250

\* Mutant of CutTo500: no cut.
CutNothing(message) == message

\* message[:500]
CutTo500(message) ==
    IF Len(message) * CharsPerPiece <= 500 THEN message
    ELSE SubSeq(message, 1, 500 \div CharsPerPiece)

\* The element Element.find returns None for.
NoElement == [found |-> FALSE, attrs |-> EmptyDict, text |-> [isNone |-> TRUE, value |-> <<>>]]

\* node.text or ""
TextOrEmpty(node) == IF node.text.isNone THEN <<>> ELSE node.text.value

\* Mutant of CaseCheck: the failure and error markers are looked at before
\* the skipped marker.
CaseCheckFailureFirst(testcase) ==
    LET check_name == Get(testcase.attrs, "classname", <<>>) \o <<".">>
                         \o Get(testcase.attrs, "name", <<>>)
        node       == IF testcase.failure.found THEN testcase.failure ELSE testcase.error
    IN  IF testcase.failure.found \/ testcase.error.found
        THEN [check_name |-> check_name, passed |-> FALSE,
              details |-> CutTo500(Get(node.attrs, "message", TextOrEmpty(node)))]
        ELSE IF testcase.skipped.found
        THEN [check_name |-> check_name, passed |-> TRUE, details |-> <<"SKIPPED">>]
        ELSE [check_name |-> check_name, passed |-> TRUE, details |-> <<"PASSED">>]

\* The body of the loop of _parse_single_xml: the ValidationCheck of one
\* <testcase> element.
CaseCheck(testcase) ==
    LET class_name == Get(testcase.attrs, "classname", <<>>)
        test_name  == Get(testcase.attrs, "name", <<>>)
        check_name == class_name \o <<".">> \o test_name
        failure    == testcase.failure
        error      == testcase.error
        skipped    == testcase.skipped
        node       == IF failure.found THEN failure ELSE error
        message    == Get(node.attrs, "message", TextOrEmpty(node))
    IN  IF skipped.found
        THEN [check_name |-> check_name, passed |-> TRUE, details |-> <<"SKIPPED">>]
        ELSE IF failure.found \/ error.found
        THEN [check_name |-> check_name, passed |-> FALSE, details |-> CutTo500(message)]
        ELSE [check_name |-> check_name, passed |-> TRUE, details |-> <<"PASSED">>]

\* _parse_single_xml: no checks for a file ET.parse rejects, else one check
\* per <testcase> element in document order.
ParseSingleXml(file) ==
    IF ~file.wellFormed THEN <<>>
    ELSE [i \in 1..Len(file.cases) |-> CaseCheck(file.cases[i])]

\* report_dir.glob("*.xml")
GlobXml(dir) == {n \in DOMAIN dir.files : dir.files[n].ext = "xml"}

\* sorted(...): the names in ascending order.
RECURSIVE Sorted(_)
Sorted(names) ==
    IF names = {} THEN <<>>
    ELSE LET first == CHOOSE n \in names : \A m \in names : n <= m
         IN  <<first>> \o Sorted(names \ {first})

\* The loop of _parse_junit_xml: checks.extend(...) file after file.
RECURSIVE ExtendAll(_, _)
ExtendAll(dir, names) ==
    IF names = <<>> THEN <<>>
    ELSE ParseSingleXml(dir.files[Head(names)]) \o ExtendAll(dir, Tail(names))

\* Mutant of ParseJunitXml: the files are taken in descending order.
RECURSIVE SortedDescending(_)
SortedDescending(names) ==
    IF names = {} THEN <<>>
    ELSE LET last == CHOOSE n \in names : \A m \in names : n >= m
         IN  <<last>> \o SortedDescending(names \ {last})

ParseJunitXmlBackwards(dir) ==
    IF ~dir.exists THEN <<>>
    ELSE ExtendAll(dir, SortedDescending(GlobXml(dir)))

\* _parse_junit_xml
ParseJunitXml(dir) ==
    IF ~dir.exists THEN <<>>
    ELSE ExtendAll(dir, Sorted(GlobXml(dir)))

\* _invoke_gradle: (returncode == 0, stdout + stderr)
InvokeGradle(proc) ==
    [success |-> proc.returncode = 0, output |-> proc.stdout \o proc.stderr]

\* Mutant of RunTests: the synthetic check is added whenever gradle failed.
RunTestsAlwaysSynthetic(proc, dir) ==
    LET gradle == InvokeGradle(proc)
        checks == ParseJunitXml(dir)
    IN  IF ~gradle.success
        THEN checks \o <<[check_name |-> <<"gradle-build">>, passed |-> FALSE,
                          details |-> gradle.output]>>
        ELSE checks

\* Mutant of RunTests: the synthetic check carries a fixed text.
RunTestsWithoutOutput(proc, dir) ==
    LET gradle == InvokeGradle(proc)
        checks == ParseJunitXml(dir)
    IN  IF checks = <<>>
        THEN <<[check_name |-> <<"gradle-build">>, passed |-> gradle.success,
                details |-> <<"Build succeeded, no test cases found">>]>>
        ELSE checks

\* Mutant of RunTests: no synthetic check when gradle succeeded.
RunTestsSyntheticOnFailureOnly(proc, dir) ==
    LET gradle == InvokeGradle(proc)
        checks == ParseJunitXml(dir)
    IN  IF checks = <<>> /\ ~gradle.success
        THEN <<[check_name |-> <<"gradle-build">>, passed |-> FALSE,
                details |-> gradle.output]>>
        ELSE checks

\* run_tests, given what the gradle process did and the report directory
\* it left.
RunTests(proc, dir) ==
    LET gradle == InvokeGradle(proc)
        checks == ParseJunitXml(dir)
    IN  IF checks = <<>>
        THEN <<[check_name |-> <<"gradle-build">>, passed |-> gradle.success,
                details |-> IF ~gradle.success THEN gradle.output
                            ELSE <<"Build succeeded, no test cases found">>]>>
        ELSE checks

(***************************************************************************)
(* The Report Bridge on its own: run_tests called again and again on a     *)
(* project whose report directory holds whatever gradle, now or in an      *)
(* earlier invocation, left there.                                         *)
(***************************************************************************)
\* The pieces the texts of the markers are made of.
PiecesOf == [failureMessage |-> <<"fm1", "fm2", "fm3", "fm4">>,
             failureText    |-> <<"ft1", "ft2", "ft3", "ft4">>,
             errorMessage   |-> <<"em1", "em2", "em3", "em4">>,
             errorText      |-> <<"et1", "et2", "et3", "et4">>]

\* Texts of 0 to MaxPieces * CharsPerPiece characters.
Texts(kind) == {SubSeq(PiecesOf[kind], 1, n) : n \in 0..MaxPieces}

NoText == [isNone |-> TRUE, value |-> <<>>]

SomeText(t) == [isNone |-> FALSE, value |-> t]

\* <failure> and <error> elements: with a message attribute (and a body),
\* or without one and with or without a body.
Markers(kind) ==
    LET message == IF kind = "failure" THEN "failureMessage" ELSE "errorMessage"
        text    == IF kind = "failure" THEN "failureText" ELSE "errorText"
    IN  {NoElement}
        \cup {[found |-> TRUE, attrs |-> ("message" :> m),
               text |-> SomeText(SubSeq(PiecesOf[text], 1, 1))] : m \in Texts(message)}
        \cup {[found |-> TRUE, attrs |-> EmptyDict, text |-> t] :
                 t \in {NoText} \cup {SomeText(b) : b \in Texts(text)}}

SkippedMarkers == {NoElement, [found |-> TRUE, attrs |-> EmptyDict, text |-> NoText]}

\* <testcase> elements with every combination of markers.
AllCases ==
    {[attrs |-> a, skipped |-> sk, failure |-> f, error |-> e] :
        a \in {("classname" :> <<"Api">>) @@ ("name" :> <<"t0">>), ("name" :> <<"t0">>)},
        sk \in SkippedMarkers, f \in Markers("failure"), e \in Markers("error")}

\* A passing and a failing case.
PassingCase ==
    [attrs |-> ("classname" :> <<"Api">>) @@ ("name" :> <<"t1">>),
     skipped |-> NoElement, failure |-> NoElement, error |-> NoElement]

FailingCase ==
    [attrs |-> ("classname" :> <<"Api">>) @@ ("name" :> <<"t2">>),
     skipped |-> NoElement,
     failure |-> [found |-> TRUE, attrs |-> ("message" :> <<"fm1">>), text |-> NoText],
     error |-> NoElement]

\* Files of the report directory: a report ET.parse rejects, reports with
\* up to MaxCases cases, and a file that is no *.xml.
ReportFiles ==
    {[ext |-> "xml", wellFormed |-> FALSE, cases |-> <<>>],
     [ext |-> "txt", wellFormed |-> TRUE, cases |-> <<PassingCase>>]}
    \cup {[ext |-> "xml", wellFormed |-> TRUE, cases |-> c] :
             c \in SeqsUpTo({PassingCase, FailingCase}, MaxCases)}

\* A directory holding the given files; the names are numbered in
\* ascending order.
DirOf(files) == [exists |-> TRUE, files |-> files]

ReportDirs ==
    {NoReportDir}
    \cup {DirOf(f) : f \in UNION {[names -> ReportFiles] : names \in SUBSET (1..MaxFiles)}}
    \cup {DirOf(1 :> [ext |-> "xml", wellFormed |-> TRUE, cases |-> <<c>>]) : c \in AllCases}

\* What the gradle process can end with.
GradleOutcomes ==
    [returncode : {0, 1}, stdout : {<<"BUILD">>},
     stderr : {<<>>, <<"error: package does not exist">>}]

\* What gradle does to the report directory: nothing (the test task did
\* not run), or it replaces the reports.
GradleWrites ==
    {[touch |-> FALSE, dir |-> NoReportDir]}
    \cup {[touch |-> TRUE, dir |-> d] :
            d \in {DirOf(<<>>),
                   DirOf(1 :> [ext |-> "xml", wellFormed |-> TRUE, cases |-> <<PassingCase>>]),
                   DirOf(1 :> [ext |-> "xml", wellFormed |-> TRUE,
                               cases |-> <<PassingCase, FailingCase>>])}}

InitBridge ==
    /\ PipelineIdle
    /\ EmptyWorkDir
    /\ NoGateCall
    /\ NoStoreCall
    /\ NoLogCall
    /\ NoGitCall
    /\ NoCliCall
    /\ NoWriters
    /\ reportDir \in ReportDirs
    /\ testRun = NoRun

\* run_tests() is called: gradle runs, the reports are parsed, the checks
\* are returned.
GradleRunTests ==
    \E proc \in GradleOutcomes, write \in GradleWrites :
        LET dir == IF write.touch THEN write.dir ELSE reportDir
        IN  /\ reportDir' = dir
            /\ testRun' = [called |-> TRUE, returncode |-> proc.returncode,
                           stdout |-> proc.stdout, stderr |-> proc.stderr,
                           parsed |-> ParseJunitXml(dir),
                           checks |-> RunTests(proc, dir)]
            /\ UNCHANGED <<pipelineVars, progressFile, stateFiles, now, gateVars,
                           storeVars, logVars, gitVars, cliVars, writerVars>>

NextBridge == GradleRunTests

SpecBridge == InitBridge /\ [][NextBridge]_vars

(***************************************************************************)
(* Properties of the Report Bridge.                                        *)
(***************************************************************************)
\* The gradle command of the last run_tests call failed.
BuildFailed == testRun.called /\ testRun.returncode # 0

\* C32: when the reports yield no check and gradle failed, run_tests returns
\* one check, named gradle-build, not passed, whose details are the output
\* gradle wrote, stdout then stderr.
C32_SyntheticCheckOnFailure ==
    (BuildFailed /\ testRun.parsed = <<>>)
        => testRun.checks = <<[check_name |-> <<"gradle-build">>, passed |-> FALSE,
                              details |-> testRun.stdout \o testRun.stderr]>>

\* gradle failed with a compile error and the only report is unreadable.
C32_Witness ==
    /\ BuildFailed
    /\ testRun.stderr = <<"error: package does not exist">>
    /\ reportDir.exists /\ DOMAIN reportDir.files = {1}
    /\ ~reportDir.files[1].wellFormed
    /\ Len(testRun.checks) = 1

\* C33: when gradle failed and the reports yield checks, run_tests returns
\* exactly those, in order, and no gradle-build check.
C33_FailedBuildWithReports ==
    (BuildFailed /\ testRun.parsed # <<>>)
        => /\ testRun.checks = testRun.parsed
           /\ \A i \in 1..Len(testRun.checks) :
                 testRun.checks[i].check_name # <<"gradle-build">>

C33_Witness ==
    /\ BuildFailed
    /\ Len(testRun.parsed) = 2
    /\ Len(testRun.checks) = 2
    /\ ~testRun.checks[2].passed

\* The check made up for the build step.
IsSynthetic(checks) == Len(checks) = 1 /\ checks[1].check_name = <<"gradle-build">>

RECURSIVE CasesUpTo(_, _)
CasesUpTo(dir, k) ==
    IF k = 0 THEN <<>>
    ELSE CasesUpTo(dir, k - 1)
         \o (IF k \in DOMAIN dir.files /\ dir.files[k].ext = "xml" /\ dir.files[k].wellFormed
             THEN dir.files[k].cases ELSE <<>>)

ReportedCases(dir) == IF dir.exists THEN CasesUpTo(dir, MaxFiles + 1) ELSE <<>>

\* The text of the marker a case failed with: of <failure> if there is one,
\* else of <error>; the message attribute, or the body without one.
MarkerText(tc) ==
    LET marker == IF tc.failure.found THEN tc.failure ELSE tc.error
    IN  IF "message" \in DOMAIN marker.attrs THEN marker.attrs["message"]
        ELSE IF marker.text.isNone THEN <<>> ELSE marker.text.value

\* `details` is `text` cut to at most 500 characters.
IsCutOf(details, text) ==
    /\ Len(details) * CharsPerPiece <= 500
    /\ Len(details) <= Len(text)
    /\ \A i \in 1..Len(details) : details[i] = text[i]
    /\ Len(details) < Len(text) => (Len(details) + 1) * CharsPerPiece > 500

\* The check is the one the case maps to.
MapsTo(tc, check) ==
    /\ check.check_name = (IF "classname" \in DOMAIN tc.attrs THEN tc.attrs["classname"] ELSE <<>>)
                             \o <<".">>
                             \o (IF "name" \in DOMAIN tc.attrs THEN tc.attrs["name"] ELSE <<>>)
    /\ tc.skipped.found => check.passed /\ check.details = <<"SKIPPED">>
    /\ (~tc.skipped.found /\ (tc.failure.found \/ tc.error.found))
          => ~check.passed /\ IsCutOf(check.details, MarkerText(tc))
    /\ (~tc.skipped.found /\ ~tc.failure.found /\ ~tc.error.found)
          => check.passed /\ check.details = <<"PASSED">>

\* C35: run_tests returns one check per reported case, named
\* classname.name: passed with SKIPPED for a case with a skipped marker,
\* whatever else it has; else not passed, with the failure or error marker's
\* message (its body when it has no message attribute) cut to 500
\* characters; else passed with PASSED.
C35_CaseMapping ==
    (testRun.called /\ ReportedCases(reportDir) # <<>>)
        => /\ Len(testRun.checks) = Len(ReportedCases(reportDir))
           /\ \A i \in 1..Len(testRun.checks) :
                 MapsTo(ReportedCases(reportDir)[i], testRun.checks[i])

\* A case with a skipped, a failure and an error marker.
C35_Witness ==
    /\ testRun.called
    /\ Len(ReportedCases(reportDir)) = 1
    /\ ReportedCases(reportDir)[1].skipped.found
    /\ ReportedCases(reportDir)[1].failure.found
    /\ ReportedCases(reportDir)[1].error.found
    /\ Len(testRun.checks) = 1
    /\ testRun.checks[1].details = <<"SKIPPED">>

\* C36: what _parse_junit_xml returns is, file after file in the order of
\* the sorted names, the checks of each readable report's cases in their
\* order; an unreadable report adds nothing and takes nothing away, and
\* without the directory there are no checks.
C36_ParsedInOrder ==
    testRun.called
        => /\ Len(testRun.parsed) = Len(ReportedCases(reportDir))
           /\ \A i \in 1..Len(testRun.parsed) :
                 MapsTo(ReportedCases(reportDir)[i], testRun.parsed[i])
           /\ ~reportDir.exists => testRun.parsed = <<>>

\* Two reports: the failing case of the first, then the passing and the
\* failing case of the second.
C36_Witness ==
    /\ testRun.called
    /\ reportDir.exists /\ DOMAIN reportDir.files = {1, 2}
    /\ reportDir.files[1].ext = "xml" /\ reportDir.files[1].cases = <<FailingCase>>
    /\ reportDir.files[2].ext = "xml" /\ reportDir.files[2].cases = <<PassingCase, FailingCase>>
    /\ Len(testRun.parsed) = 3
    /\ testRun.parsed[1].check_name = <<"Api", ".", "t2">>
    /\ testRun.parsed[2].check_name = <<"Api", ".", "t1">>
    /\ testRun.parsed[3].check_name = <<"Api", ".", "t2">>

\* C38: whenever gradle failed, one of the checks run_tests returns is not
\* passed, whatever reports the directory holds.
C38_FailedBuildHasFailedCheck ==
    BuildFailed => \E i \in 1..Len(testRun.checks) : ~testRun.checks[i].passed

(***************************************************************************)
(* The command (main.py).  An invocation is told by what --config names    *)
(* (nothing: the argument is not given; no file; a file load_config or the *)
(* Orchestrator's constructor rejects; a valid file) and by its flags.     *)
(***************************************************************************)
Argvs == [config : {"noarg", "nofile", "invalid", "valid"}, status : BOOLEAN,
          help : BOOLEAN]

\* parser.parse_args(): --help prints the usage and exits with 0; without
\* the required --config argparse exits with 2.
ParseArgs(argv) ==
    IF argv.help THEN [ok |-> FALSE, exit |-> 0]
    ELSE IF argv.config = "noarg" THEN [ok |-> FALSE, exit |-> 2]
    ELSE [ok |-> TRUE, exit |-> -1]

\* How main leaves off: it has exited with a code, or asyncio.run has
\* been entered.
Exited(code, shown) == [pc |-> "exited", exit |-> code, started |-> FALSE, shown |-> shown]

Running == [pc |-> "running", exit |-> -1, started |-> TRUE, shown |-> FALSE]

\* Mutant of MainBeforeRun: the existence of the file is not checked and a
\* failing from_config_file is passed over.
MainBeforeRunUnchecked(argv, f) ==
    LET args == ParseArgs(argv)
    IN  IF ~args.ok THEN Exited(args.exit, FALSE)
        ELSE IF argv.status THEN Exited(0, TRUE)
        ELSE Running

\* main up to asyncio.run: the arguments, the check of the file,
\* from_config_file, and the status display.
MainBeforeRun(argv, f) ==
    LET args == ParseArgs(argv)
    IN  IF ~args.ok THEN Exited(args.exit, FALSE)
        ELSE IF argv.config = "nofile" THEN Exited(1, FALSE)
        ELSE IF argv.config = "invalid" THEN Exited(1, FALSE)
        ELSE IF argv.status
        THEN LET status == ReadProgress(f) IN Exited(0, TRUE)
        ELSE Running

\* main after asyncio.run: 0 for a true value, 1 for a false one and for
\* an exception.
MainAfterRun(outcome) ==
    IF outcome = "raised" THEN 1
    ELSE IF outcome = "True" THEN 0 ELSE 1

\* The invocation that asks for the status of a valid configuration.
StatusOnly == [config |-> "valid", status |-> TRUE, help |-> FALSE]

\* The command is invoked: in any way before the pipeline has run, for
\* the status after it.
CliMain(argv) ==
    LET out == MainBeforeRun(argv, progressFile)
    IN  /\ cli.pc \in {"none", "exited"}
        /\ pc = "idle" \/ argv = StatusOnly
        /\ cli' = [pc |-> out.pc, config |-> argv.config, status |-> argv.status,
                   help |-> argv.help, exit |-> out.exit, started |-> out.started,
                   shown |-> out.shown]
        /\ UNCHANGED <<pipelineVars, progressFile, stateFiles, now, gateVars,
                       storeVars, logVars, gitVars, bridgeVars, writerVars>>

\* run_pipeline has ended and main returns.
CliReturn ==
    /\ cli.pc = "running"
    /\ pc = "done"
    /\ cli' = [cli EXCEPT !.pc = "exited", !.exit = MainAfterRun(runResult)]
    /\ UNCHANGED <<pipelineVars, progressFile, stateFiles, now, gateVars,
                   storeVars, logVars, gitVars, bridgeVars, writerVars>>

\* The pipeline runs inside asyncio.run.
CliPipeline == cli.pc = "running" /\ Next

NextCli ==
    \/ \E argv \in Argvs : CliMain(argv)
    \/ CliPipeline
    \/ CliReturn

SpecCli == Init /\ [][NextCli]_vars

(***************************************************************************)
(* Properties of the command.                                              *)
(***************************************************************************)
\* The invocation has ended, by return or by SystemExit.
HasExited == cli.pc = "exited"

\* The pipeline run of this invocation returned True.
RunSucceeded == cli.started /\ runResult = "True"

\* An operational failure: no file, a rejected configuration, a pipeline
\* run that returned False or raised.
OperationalFailure ==
    \/ cli.config \in {"nofile", "invalid"}
    \/ cli.started /\ runResult \in {"False", "raised"}

\* C37 as stated: 0 exactly when the run succeeded or the status was asked
\* for and shown, 1 on every operational failure, 2 when --config is not
\* given; no run with a missing or invalid configuration.
C37_ExitCodes ==
    HasExited
        => /\ cli.exit = 0 <=> (RunSucceeded \/ (cli.status /\ cli.shown))
           /\ OperationalFailure => cli.exit = 1
           /\ cli.config = "noarg" => cli.exit = 2
           /\ cli.config \in {"noarg", "nofile", "invalid"} => ~cli.started

\* C37, amended: as stated for an invocation without --help; with --help
\* the exit code is 0 whatever else is given, and nothing is run.
C37_ExitCodesWithoutHelp ==
    HasExited
        => /\ ~cli.help
              => /\ cli.exit = 0 <=> (RunSucceeded \/ (cli.status /\ cli.shown))
                 /\ OperationalFailure => cli.exit = 1
                 /\ cli.config = "noarg" => cli.exit = 2
           /\ cli.help => cli.exit = 0
           /\ (cli.help \/ cli.config \in {"noarg", "nofile", "invalid"}) => ~cli.started
           /\ cli.exit \in {0, 1, 2}

\* The pipeline ran and failed: exit code 1.
C37_Witness ==
    /\ HasExited /\ ~cli.help
    /\ cli.started /\ runResult = "False"
    /\ cli.exit = 1

(***************************************************************************)
(* ProgressTracker instances on one project directory.  A mark_* or        *)
(* add_session_log call is two steps, as nothing locks the file: it reads  *)
(* the whole record, and later writes the whole record it has updated.     *)
(* init_progress reads nothing and is one step.                            *)
(***************************************************************************)
MaxUpdates == 3        \* calls made on the trackers, all instances together

NumWriters == 2

Writers == 1..NumWriters

\* The calls followed: what is done, and on which phase.
Updates == [op : {"started", "completed", "failed", "session"}, phase : LogPhases]

IdleWriter == [pc |-> "idle", op |-> "none", phase |-> "none", snapshot |-> NoFile]

\* Another instance is between its read and its write.
OthersOpen(w) == \E v \in Writers \ {w} : writers.local[v].pc = "read"

\* Calls completed or under way.
CallsMade == Len(writers.done) + Cardinality({w \in Writers : writers.local[w].pc = "read"})

\* The record a call writes, from the record it read.
ApplyUpdate(op, phase, snapshot, t) ==
    CASE op = "started"   -> MarkPhaseStarted(snapshot, phase, t)
      [] op = "completed" -> MarkPhaseCompleted(snapshot, phase, <<"summary">>, t)
      [] op = "failed"    -> MarkPhaseFailed(snapshot, phase, <<"boom">>, t)
      [] op = "session"   -> AddSessionLog(snapshot, phase, "session-1", "model", 0, t)

InitWriters ==
    /\ PipelineIdle
    /\ EmptyWorkDir
    /\ NoGateCall
    /\ NoStoreCall
    /\ NoLogCall
    /\ NoGitCall
    /\ NoTestRun
    /\ NoCliCall
    /\ writers = [local |-> [w \in Writers |-> IdleWriter], done |-> <<>>,
                  overlap |-> FALSE]

\* What a step of an instance leaves alone.
OnlyWriters == UNCHANGED <<pipelineVars, stateFiles, gateVars, storeVars, logVars,
                           gitVars, bridgeVars, cliVars>>

\* Instance w calls init_progress.
WriterInit(w) ==
    /\ writers.local[w].pc = "idle"
    /\ CallsMade < MaxUpdates
    /\ progressFile' = InitProgress(ProjectName, now)
    /\ now' = now + 1
    /\ writers' = [writers EXCEPT
           !.done = Append(@, [w |-> w, op |-> "init", phase |-> "none", at |-> now]),
           !.overlap = @ \/ OthersOpen(w)]
    /\ OnlyWriters

\* Instance w enters a mark_* or add_session_log call: read_progress().
WriterReads(w, u) ==
    /\ writers.local[w].pc = "idle"
    /\ CallsMade < MaxUpdates
    /\ writers' = [writers EXCEPT
           !.local[w] = [pc |-> "read", op |-> u.op, phase |-> u.phase,
                         snapshot |-> progressFile],
           !.overlap = @ \/ OthersOpen(w)]
    /\ UNCHANGED <<progressFile, now>>
    /\ OnlyWriters

\* Instance w ends its call: the entry is updated and _write_progress
\* writes the record.
WriterWrites(w) ==
    LET call == writers.local[w]
    IN  /\ call.pc = "read"
        /\ progressFile' = ApplyUpdate(call.op, call.phase, call.snapshot, now)
        /\ now' = now + 1
        /\ writers' = [writers EXCEPT
               !.local[w] = IdleWriter,
               !.done = Append(@, [w |-> w, op |-> call.op, phase |-> call.phase,
                                   at |-> now])]
        /\ OnlyWriters

NextWriters ==
    \/ \E w \in Writers : WriterInit(w)
    \/ \E w \in Writers, u \in Updates : WriterReads(w, u)
    \/ \E w \in Writers : WriterWrites(w)

SpecWriters == InitWriters /\ [][NextWriters]_vars

(***************************************************************************)
(* Properties of instances writing side by side.                           *)
(***************************************************************************)
\* The calls completed since the last init_progress, by their place in the
\* history.
SinceInit ==
    {i \in 1..Len(writers.done) :
        \A j \in i..Len(writers.done) : writers.done[j].op # "init"}

\* The calls of the given kinds on phase p among them.
CallsOn(p, ops) == {i \in SinceInit : writers.done[i].phase = p /\ writers.done[i].op \in ops}

Latest(calls) == CHOOSE i \in calls : \A j \in calls : j <= i

StampOf == [started |-> "started_at", completed |-> "completed_at", failed |-> "failed_at"]

StatusSetBy == [started |-> "in_progress", completed |-> "completed", failed |-> "failed"]

\* Call i has left its trace in the record on file.
Reflected(i) ==
    LET call  == writers.done[i]
        entry == EntryIn(progressFile, call.phase)
    IN  IF call.op = "session"
        THEN \E j \in 1..Len(SessionsIn(progressFile, call.phase)) :
                SessionsIn(progressFile, call.phase)[j].logged_at = call.at
        ELSE /\ i = Latest(CallsOn(call.phase, {call.op}))
                  => Get(entry, StampOf[call.op], -1) = call.at
             /\ i = Latest(CallsOn(call.phase, DOMAIN StatusSetBy))
                  => Get(entry, "status", "absent") = StatusSetBy[call.op]

\* No call since the last init_progress is lost.
NothingLost ==
    /\ \A i \in SinceInit : Reflected(i)
    /\ \A p \in LogPhases :
          Len(SessionsIn(progressFile, p)) = Cardinality(CallsOn(p, {"session"}))

\* The step is the write of a mark_* or add_session_log call.
WriteStep ==
    /\ Len(writers'.done) = Len(writers.done) + 1
    /\ writers'.done[Len(writers'.done)].op # "init"

\* C39: while the calls do not overlap, every call made since the last
\* init_progress has its trace in the record; and whenever a call writes,
\* the file becomes the record that call had read with its own entry
\* updated, whatever the file held in between.
C39_LastWriterWins ==
    [][/\ ~writers'.overlap => NothingLost'
       /\ WriteStep =>
             LET call == writers'.done[Len(writers'.done)]
                 read == writers.local[call.w].snapshot
             IN  /\ DOMAIN PhasesIn(progressFile') = DOMAIN PhasesIn(read) \cup {call.phase}
                 /\ \A q \in DOMAIN PhasesIn(read) \ {call.phase} :
                       SameEntry(EntryIn(progressFile', q), EntryIn(read, q))]_vars

\* An add_session_log call that one instance has completed is missing from
\* the record, after the other instance wrote what it had read before.
C39_Witness ==
    /\ writers.overlap
    /\ \A w \in Writers : writers.local[w].pc = "idle"
    /\ \E i \in SinceInit :
          /\ writers.done[i].op = "session"
          /\ writers.done[i].w # writers.done[Len(writers.done)].w
          /\ ~Reflected(i)

(***************************************************************************)
(* Termination of run_pipeline.  The code between two awaits runs on, and  *)
(* every call of the collaborator is taken to return or raise in the end:  *)
(* weak fairness of the step that starts a phase and of the steps that end *)
(* the await.                                                              *)
(***************************************************************************)
\* The await of the collaborator ends, and run_pipeline goes on.
AwaitEnds ==
    \E o \in AllOutcomes :
        \/ OrchestratorCatchesRunner(o)
        \/ OrchestratorNoResult(o)
        \/ OrchestratorGateRejects(o)
        \/ OrchestratorCatchesGate(o)
        \/ OrchestratorNextPhase(o)
        \/ OrchestratorReturnsTrue(o)

SpecLive == Spec /\ WF_vars(RunnerStart) /\ WF_vars(AwaitEnds)

\* C40: once called, run_pipeline ends with True or False; the collaborator
\* is invoked at most five times; and when run_pipeline has ended no phase
\* of the Progress Log has the status in_progress.
C40_RunTerminates ==
    (pc # "idle")
        ~> (/\ pc = "done" /\ runResult \in {"True", "False"}
            /\ Len(invoked) <= 5
            /\ \A p \in PhaseNames : StatusIn(progressFile, p) # "in_progress")

\* The run that goes through all five phases.
C40_Witness ==
    /\ pc = "done" /\ runResult = "True"
    /\ Len(invoked) = 5
    /\ \A p \in PhaseNames : StatusIn(progressFile, p) = "completed"
====
